---- MODULE Spec2Model ----
(***************************************************************************)
(* A model of the stateful flows of the placement-companion client:        *)
(*   - the mock-test session (src/pages/MockInterviews.tsx, MockTests),    *)
(*   - the mock-interview session (same file, MockInterviews),             *)
(*   - the server-sent-event reader of the interview replies,              *)
(*   - the practice streak of the Coding Practice page and the Dashboard.  *)
(* Every await of the source is a point where the handler is suspended and *)
(* other events (clicks, timer ticks, other responses) may run; a request  *)
(* in flight is a record in a set, and its continuation is a separate      *)
(* action that carries the values the handler closed over.                 *)
(***************************************************************************)
EXTENDS Integers, Sequences, FiniteSets, TLC

(***************************************************************************)
(* Bounds of the model.                                                    *)
(***************************************************************************)
\* Number of rows the mock_tests table may hold (inserts stop there).
MaxTests == 1
\* Largest number of questions of a test (the source offers 5, 10, 15, 20).
MaxQuestions == 2
\* Seconds of test time per question (the source uses 60: max_time = numQuestions * 60).
SecondsPerQuestion == 1
\* The days of the streak model are 1..MaxDay.
MaxDay == 4
\* Largest number of coding problems logged with the same date.
MaxPerDay == 2
\* Number of rows the mock_interviews table may hold (inserts stop there).
MaxInterviews == 1
\* Largest number of answers sent in one interview.
MaxAnswers == 1
MaxSends == 2
\* Largest number of data events of one reply stream (the [DONE] event not counted).
MaxEvents == 2
\* Largest number of pieces of the content the AI gateway returns.
MaxContent == 3
\* Number of rows a record page may insert.
MaxRecords == 2
\* Number of files the Resumes page may upload.
MaxUploads == 1
MaxListed == 2
MaxRows == 2
MaxRoadmaps == 3
\* Largest number of goals of one month (Add goal stops there).
MaxGoals == 2
\* Number of history fetches counted as outstanding (the counter saturates).
MaxFetches == 1
\* The Submit button issues an update only while fewer than this many updates
\* are in flight (the timer's submit is never held back).
MaxInFlight == 1
\* fetchTestHistory: .limit(10)
HistoryLimit == 10

\* The option keys of a question; the source has A, B, C, D and only ever
\* compares a selection with correctAnswer for equality, so two keys are kept.
OptionKeys == {"A", "B"}
\* An entry of selectedAnswers: "" (not answered) or an option key.
Selections == {""} \cup OptionKeys

VARIABLES
    \* ---- MockTests component state (useState) ----
    view,                  \* "setup" | "test" | "result" | "history"
    loading,
    testHistory,           \* ids of the fetched completed tests, newest first
    currentTest,           \* <<>> (null) or <<row>>
    currentQuestionIndex,  \* 0-based, as in the source
    selectedAnswers,       \* sequence of Selections
    timeRemaining,
    \* ---- the interval callback's closure ----
    timerAnswers,          \* selectedAnswers as captured when the timer effect last ran
    intervals,             \* the intervals set by the timer effect and not cleared
    \* ---- backend ----
    mock_tests,            \* the rows of table mock_tests, in insertion order (id = position)
    requests,              \* the requests of the mock-test page that are in flight
    historyFetches,        \* outstanding fetchTestHistory selects
    \* ---- observation ----
    toasts,                \* the notifications the last step showed
    submitted,             \* ids of the tests for which handleSubmitTest has sent its update
    lastEvent              \* the step taken last: a request's outcome, "tick",
                           \* "tick.handleSubmitTest", "resetTest", "handleAnswerSelect",
                           \* or "ui" for any other user event

VARIABLES
    \* ---- the practice streak (CodingPractice.tsx, Dashboard.tsx) ----
    today,                 \* the current day, as a day number
    coding_problems,       \* table coding_problems: day |-> number of rows with that date_practiced
    streak,                \* CodingPractice: the streak state
    currentStreak          \* Dashboard: stats.currentStreak

VARIABLES
    \* ---- MockInterviews component state (useState); the source names the
    \* first two view and loading, as the MockTests component does ----
    interviewView,         \* "setup" | "interview" | "feedback" | "history"
    interviewLoading,
    sendingMessage,
    interviewHistory,      \* the fetched rows (snapshots), newest first
    currentInterview,      \* <<>> (null) or <<id>>
    messages,              \* the displayed transcript
    inputMessage,          \* the text of the answer box, a sequence of characters
    feedback,              \* <<>> (null) or <<feedback object>>
    \* ---- backend ----
    mock_interviews,       \* the rows of table mock_interviews, in insertion order (id = position)
    calls,                 \* the suspended startInterview / sendMessage / endInterview calls
    interviewFetches,      \* outstanding fetchInterviewHistory selects
    \* ---- observation ----
    started                \* ids of the interviews whose start call has answered OK

VARIABLES
    \* ---- the edge functions that answer with JSON ----
    aiContent,             \* choices[0].message.content of the gateway's last answer
    response               \* the response the function gave for it

VARIABLES
    \* ---- the record pages: Learning, CodingPractice, Applications, Resumes ----
    page,                  \* the page that is open: "none" or one of RecordPages
    stored,                \* the rows of the page's table (learning_goals, coding_problems, applications, resumes)
    records,               \* the page's fetched list (goals, problems, applications, resumes)
    form,                  \* the fields of the dialog's form
    isDialogOpen,
    editing,               \* editingGoal / editingProblem / editingApp / editingResume: <<>> or <<row>>
    deleteConfirm,         \* the id awaiting confirmation: <<>> or <<id>>
    submitting,
    uploadingFile,
    pending,               \* the page's requests in flight
    fetches,               \* outstanding list fetches
    lastId,                \* number of rows inserted so far
    uploads                \* number of files uploaded so far

VARIABLES
    \* ---- the list filters (Applications, CodingPractice) ----
    filterPage,            \* the page that is mounted: "none", "applications" or "coding"
    applications,          \* Applications: the fetched applications
    filterStatus,          \* Applications: the status selector
    filterType,            \* Applications: the type selector
    problems,              \* CodingPractice: the fetched problems
    filterPlatform,        \* CodingPractice: the platform selector
    filterDifficulty       \* CodingPractice: the difficulty selector

VARIABLES
    \* ---- the database under its row-level policies ----
    db,                    \* table |-> the set of its rows
    request,               \* the last request: who sent it and the command
    result                 \* the rows the last request returned

VARIABLES
    \* ---- the roadmap page, one instance per open client ----
    roadmapTable,          \* the rows of table roadmap
    roadmap,               \* client |-> its roadmap state: <<>> or <<row>>
    saving,                \* client |-> its saving flag
    roadmapRequests,       \* the inserts and updates of saveRoadmap in flight
    roadmapFetches         \* client |-> its outstanding fetchRoadmap selects

VARIABLES
    \* ---- ResumeAnalyzer component state (useState) ----
    resumeText,            \* a text, as a sequence of pieces
    selectedFile,          \* TRUE when a PDF is selected
    inputMethod,           \* "paste" | "upload"
    parsing,
    analyzing,
    analyzerCalls          \* the suspended handleAnalyzeWithParse / handleAnalyze calls

VARIABLES
    \* ---- the router (App) and the sign-in form (Auth.tsx) ----
    authUser,              \* useAuth().user: <<>> (null) or <<uid>>
    authLoading,           \* useAuth().loading
    location,              \* the path of the current history entry
    rendered,              \* what the routes show: "spinner", "auth", "notfound" or a protected page
    formLoading,           \* the loading state of the Auth page
    signIns                \* signIn calls that have not answered

VARIABLES
    \* ---- RoadmapPage: the monthly plan (useState) ----
    monthlyGoals           \* sequence of [month, goals], goals a sequence of texts

testVars == <<view, loading, testHistory, currentTest, currentQuestionIndex,
              selectedAnswers, timeRemaining, timerAnswers, intervals, mock_tests,
              requests, historyFetches, submitted>>

streakVars == <<today, coding_problems, streak, currentStreak>>

interviewVars == <<interviewView, interviewLoading, sendingMessage, interviewHistory,
                   currentInterview, messages, inputMessage, feedback,
                   mock_interviews, calls, interviewFetches, started>>

endpointVars == <<aiContent, response>>

recordVars == <<page, stored, records, form, isDialogOpen, editing, deleteConfirm, submitting,
                uploadingFile, pending, fetches, lastId, uploads>>

filterVars == <<filterPage, applications, filterStatus, filterType, problems, filterPlatform, filterDifficulty>>

policyVars == <<db, request, result>>

roadmapVars == <<roadmapTable, roadmap, saving, roadmapRequests, roadmapFetches>>

analyzerVars == <<resumeText, selectedFile, inputMethod, parsing, analyzing, analyzerCalls>>

routeVars == <<authUser, authLoading, location, rendered, formLoading, signIns>>

goalVars == <<monthlyGoals>>

obsVars == <<toasts, lastEvent>>

vars == <<testVars, streakVars, interviewVars, endpointVars, recordVars, filterVars, policyVars, roadmapVars, analyzerVars, routeVars, goalVars, obsVars>>

\* What a step of one part of the program leaves alone: the other parts.
exceptTest == <<streakVars, interviewVars, endpointVars, recordVars, filterVars, policyVars, roadmapVars, analyzerVars, routeVars, goalVars>>
exceptInterview == <<testVars, streakVars, endpointVars, recordVars, filterVars, policyVars, roadmapVars, analyzerVars, routeVars, goalVars>>
exceptStreak == <<testVars, interviewVars, endpointVars, recordVars, filterVars, policyVars, roadmapVars, analyzerVars, routeVars, goalVars>>
exceptEndpoints == <<testVars, streakVars, interviewVars, recordVars, filterVars, policyVars, roadmapVars, analyzerVars, routeVars, goalVars>>
exceptRecords == <<testVars, streakVars, interviewVars, endpointVars, filterVars, policyVars, roadmapVars, analyzerVars, routeVars, goalVars>>
exceptFilters == <<testVars, streakVars, interviewVars, endpointVars, recordVars, policyVars, roadmapVars, analyzerVars, routeVars, goalVars>>
exceptPolicies == <<testVars, streakVars, interviewVars, endpointVars, recordVars, filterVars, roadmapVars, analyzerVars, routeVars, goalVars>>
exceptRoadmap == <<testVars, streakVars, interviewVars, endpointVars, recordVars, filterVars, policyVars, analyzerVars, routeVars, goalVars>>
exceptAnalyzer == <<testVars, streakVars, interviewVars, endpointVars, recordVars, filterVars, policyVars, roadmapVars, routeVars, goalVars>>
exceptRoutes == <<testVars, streakVars, interviewVars, endpointVars, recordVars, filterVars, policyVars, roadmapVars, analyzerVars, goalVars>>
exceptGoals == <<testVars, streakVars, interviewVars, endpointVars, recordVars, filterVars, policyVars, roadmapVars, analyzerVars, routeVars>>

(***************************************************************************)
(* Values.                                                                 *)
(***************************************************************************)
\* score is a JS number (K / N) * 100; it is kept exactly, as the fraction num / den.
\* den = 0 is NaN, the value of 0 / 0.
Fraction(n, d) == [num |-> n, den |-> d]

\* The request shapes share one record type.
NoAnswers == <<>>
Request(kind, n, qs, test, payload, auto) ==
    [kind |-> kind, numQuestions |-> n, questions |-> qs, test |-> test,
     payload |-> payload, auto |-> auto]
NoPayload == [correct_answers |-> 0, time_taken |-> <<>>, answers |-> NoAnswers,
              score |-> Fraction(0, 1)]

\* A generated question is represented by its correctAnswer.
RECURSIVE SeqsUpTo(_, _)
SeqsUpTo(S, n) ==
    IF n = 0 THEN {<<>>}
    ELSE LET shorter == SeqsUpTo(S, n - 1)
         IN  shorter \cup {Append(s, x) : s \in {t \in shorter : Len(t) = n - 1}, x \in S}

QuestionLists == SeqsUpTo(OptionKeys, MaxQuestions)

\* new Array(n).fill("")
BlankAnswers(n) == [i \in 1..n |-> ""]

(***************************************************************************)
(* MockTests: the timer effect (useEffect on view, currentTest,            *)
(* timeRemaining).                                                         *)
(***************************************************************************)
\* A variant of the effect's guard that does not look at the view.
TimerArmedInAnyView(v, ct, tr) == ct # <<>> /\ tr > 0

TimerArmed(v, ct, tr) == v = "test" /\ ct # <<>> /\ tr > 0

\* The effect runs again exactly when a dependency changed; the interval it
\* installs calls the handleSubmitTest of that render, which closed over that
\* render's selectedAnswers. Its cleanup clears the interval the previous
\* run set.
TimerEffect ==
    /\ timerAnswers' =
            IF <<view', currentTest', timeRemaining'>> # <<view, currentTest, timeRemaining>>
            THEN IF TimerArmed(view', currentTest', timeRemaining')
                 THEN selectedAnswers' ELSE NoAnswers
            ELSE timerAnswers
    /\ intervals' =
            IF <<view', currentTest', timeRemaining'>> # <<view, currentTest, timeRemaining>>
            THEN (IF intervals > 0 THEN intervals - 1 ELSE 0)
                 + (IF TimerArmed(view', currentTest', timeRemaining') THEN 1 ELSE 0)
            ELSE intervals

(***************************************************************************)
(* MockTests: handleSubmitTest up to its await.                            *)
(***************************************************************************)
\* A variant of the loop below that counts every answered question as correct.
RECURSIVE CountAnswered(_, _, _)
CountAnswered(questions, answers, i) ==
    IF i > Len(questions) THEN 0
    ELSE (IF i <= Len(answers) /\ answers[i] # "" THEN 1 ELSE 0)
         + CountAnswered(questions, answers, i + 1)

\* questions.forEach((q, index) => { if (selectedAnswers[index] === q.correctAnswer) correctCount++ })
RECURSIVE CountCorrect(_, _, _)
CountCorrect(questions, answers, i) ==
    IF i > Len(questions) THEN 0
    ELSE (IF i <= Len(answers) /\ answers[i] = questions[i] THEN 1 ELSE 0)
         + CountCorrect(questions, answers, i + 1)

\* const score = (correctCount / questions.length) * 100
Score(correctCount, n) == Fraction(correctCount * 100, n)

\* The update handleSubmitTest sends, computed from the values it closed over.
SubmitRequest(test, answers, remaining, auto) ==
    LET correctCount == CountCorrect(test.questions, answers, 1)
    IN  Request("update", 0, <<>>, <<test>>,
                [correct_answers |-> correctCount,
                 time_taken |-> <<test.max_time - remaining>>,
                 answers |-> answers,
                 score |-> Score(correctCount, Len(test.questions))],
                auto)

(***************************************************************************)
(* MockTests: initial state (the component has mounted and its first       *)
(* fetchTestHistory is outstanding).                                       *)
(***************************************************************************)
InitTest ==
    /\ view = "setup"
    /\ loading = FALSE
    /\ testHistory = <<>>
    /\ currentTest = <<>>
    /\ currentQuestionIndex = 0
    /\ selectedAnswers = <<>>
    /\ timeRemaining = 0
    /\ timerAnswers = NoAnswers
    /\ intervals = 0
    /\ mock_tests = <<>>
    /\ requests = {}
    /\ historyFetches = 1
    /\ submitted = {}

Min(a, b) == IF a < b THEN a ELSE b
Max(a, b) == IF a > b THEN a ELSE b

\* const currentQuestion = currentTest?.questions[currentQuestionIndex]; the test
\* view renders only when view === "test" && currentTest && currentQuestion.
TestRendered ==
    /\ view = "test"
    /\ currentTest # <<>>
    /\ currentQuestionIndex < Len(currentTest[1].questions)

StartsInFlight == {r \in requests : r.kind \in {"generate", "insert"}}
UpdatesInFlight == {r \in requests : r.kind = "update"}

(***************************************************************************)
(* MockTests: startTest.                                                   *)
(***************************************************************************)
\* Click on Start Test (setup view, disabled while loading): setLoading(true)
\* and the generate-test call. limit bounds the rows and starts under way.
StartTest(n, limit) ==
    LET req == Request("generate", n, <<>>, <<>>, NoPayload, FALSE)
    IN  /\ view = "setup"
        /\ ~loading
        /\ Len(mock_tests) + Cardinality(StartsInFlight) < limit
        /\ req \notin requests
        /\ loading' = TRUE
        /\ requests' = requests \cup {req}
        /\ toasts' = <<>>
        /\ lastEvent' = "ui"
        /\ UNCHANGED exceptTest
        /\ UNCHANGED <<submitted, view, testHistory, currentTest, currentQuestionIndex,
                       selectedAnswers, timeRemaining, mock_tests, historyFetches>>
        /\ TimerEffect

\* The generate-test call failed (fetch rejected, or !response.ok): catch, finally.
GenerateFail(r) ==
    /\ r \in requests /\ r.kind = "generate"
    /\ requests' = requests \ {r}
    /\ loading' = FALSE
    /\ toasts' = <<"error">>
    /\ lastEvent' = "startTest.generateError"
    /\ UNCHANGED exceptTest
    /\ UNCHANGED <<submitted, view, testHistory, currentTest, currentQuestionIndex,
                   selectedAnswers, timeRemaining, mock_tests, historyFetches>>
    /\ TimerEffect

\* The generate-test call answered; qs is <<list>> or <<>> when the answer holds
\* no "questions" member. The handler goes on to the insert.
GenerateOk(r, qs) ==
    /\ r \in requests /\ r.kind = "generate"
    /\ requests' = (requests \ {r})
                     \cup {Request("insert", r.numQuestions, qs, <<>>, NoPayload, FALSE)}
    /\ toasts' = <<>>
    /\ lastEvent' = "ui"
    /\ UNCHANGED exceptTest
    /\ UNCHANGED <<submitted, view, loading, testHistory, currentTest, currentQuestionIndex,
                   selectedAnswers, timeRemaining, mock_tests, historyFetches>>
    /\ TimerEffect

\* The insert returned an error: throw insertError, catch, finally.
InsertFail(r) ==
    /\ r \in requests /\ r.kind = "insert"
    /\ requests' = requests \ {r}
    /\ loading' = FALSE
    /\ toasts' = <<"error">>
    /\ lastEvent' = "startTest.insertError"
    /\ UNCHANGED exceptTest
    /\ UNCHANGED <<submitted, view, testHistory, currentTest, currentQuestionIndex,
                   selectedAnswers, timeRemaining, mock_tests, historyFetches>>
    /\ TimerEffect

\* The row the insert creates (the columns the insert does not give take the
\* table's defaults; a questions member that is undefined is left out of the body).
NewRow(id, n, qs) ==
    [id |-> id, status |-> "in_progress", total_questions |-> n,
     max_time |-> n * SecondsPerQuestion,
     questions |-> IF qs = <<>> THEN <<>> ELSE qs[1],
     correct_answers |-> 0, time_taken |-> <<>>, answers |-> NoAnswers,
     score |-> Fraction(0, 1)]

\* The insert succeeded and the generated list is there: the test begins.
InsertOk(r) ==
    LET row == NewRow(Len(mock_tests) + 1, r.numQuestions, r.questions)
    IN  /\ r \in requests /\ r.kind = "insert" /\ r.questions # <<>>
        /\ requests' = requests \ {r}
        /\ mock_tests' = Append(mock_tests, row)
        /\ currentTest' = <<row>>
        /\ selectedAnswers' = BlankAnswers(Len(r.questions[1]))
        /\ currentQuestionIndex' = 0
        /\ timeRemaining' = r.numQuestions * SecondsPerQuestion
        /\ view' = "test"
        /\ loading' = FALSE
        /\ toasts' = <<"success">>
        /\ lastEvent' = "startTest.ok"
        /\ UNCHANGED exceptTest
        /\ UNCHANGED <<submitted, testHistory, historyFetches>>
        /\ TimerEffect

\* The insert succeeded but questions is undefined: setCurrentTest(testData) runs,
\* questions.length throws, and the catch shows the error toast.
InsertOkNoQuestions(r) ==
    LET row == NewRow(Len(mock_tests) + 1, r.numQuestions, r.questions)
    IN  /\ r \in requests /\ r.kind = "insert" /\ r.questions = <<>>
        /\ requests' = requests \ {r}
        /\ mock_tests' = Append(mock_tests, row)
        /\ currentTest' = <<row>>
        /\ loading' = FALSE
        /\ toasts' = <<"error">>
        /\ lastEvent' = "startTest.typeError"
        /\ UNCHANGED exceptTest
        /\ UNCHANGED <<submitted, view, testHistory, currentQuestionIndex, selectedAnswers,
                       timeRemaining, historyFetches>>
        /\ TimerEffect

(***************************************************************************)
(* MockTests: answering and moving between questions.                      *)
(***************************************************************************)
\* A variant that writes the first slot whatever question is current.
WithAnswerAtStart(answers, index, answer) ==
    [i \in 1..Max(Len(answers), 1) |-> IF i = 1 THEN answer ELSE answers[i]]

\* const newAnswers = [...selectedAnswers]; newAnswers[currentQuestionIndex] = answer
\* (an assignment past the end of a JS array extends it; the holes in between
\* read as undefined, written "").
WithAnswer(answers, index, answer) ==
    [i \in 1..Max(Len(answers), index + 1) |->
        IF i = index + 1 THEN answer
        ELSE IF i <= Len(answers) THEN answers[i] ELSE ""]

\* handleAnswerSelect: setSelectedAnswers(newAnswers).
HandleAnswerSelect(answer) ==
    /\ TestRendered
    /\ selectedAnswers' = WithAnswer(selectedAnswers, currentQuestionIndex, answer)
    /\ toasts' = <<>>
    /\ lastEvent' = "handleAnswerSelect"
    /\ UNCHANGED exceptTest
    /\ UNCHANGED <<submitted, view, loading, testHistory, currentTest, currentQuestionIndex,
                   timeRemaining, mock_tests, requests, historyFetches>>
    /\ TimerEffect

\* Previous: setCurrentQuestionIndex(Math.max(0, currentQuestionIndex - 1)), disabled at 0.
Previous ==
    /\ TestRendered
    /\ currentQuestionIndex # 0
    /\ currentQuestionIndex' = Max(0, currentQuestionIndex - 1)
    /\ toasts' = <<>>
    /\ lastEvent' = "ui"
    /\ UNCHANGED exceptTest
    /\ UNCHANGED <<submitted, view, loading, testHistory, currentTest, selectedAnswers,
                   timeRemaining, mock_tests, requests, historyFetches>>
    /\ TimerEffect

\* Next is shown while currentQuestionIndex < currentTest.total_questions - 1.
NextQuestion ==
    /\ TestRendered
    /\ currentQuestionIndex < currentTest[1].total_questions - 1
    /\ currentQuestionIndex' = currentQuestionIndex + 1
    /\ toasts' = <<>>
    /\ lastEvent' = "ui"
    /\ UNCHANGED exceptTest
    /\ UNCHANGED <<submitted, view, loading, testHistory, currentTest, selectedAnswers,
                   timeRemaining, mock_tests, requests, historyFetches>>
    /\ TimerEffect

\* The question navigator: one button per generated question.
Navigate(index) ==
    /\ TestRendered
    /\ index \in 0..(Len(currentTest[1].questions) - 1)
    /\ index # currentQuestionIndex
    /\ currentQuestionIndex' = index
    /\ toasts' = <<>>
    /\ lastEvent' = "ui"
    /\ UNCHANGED exceptTest
    /\ UNCHANGED <<submitted, view, loading, testHistory, currentTest, selectedAnswers,
                   timeRemaining, mock_tests, requests, historyFetches>>
    /\ TimerEffect

(***************************************************************************)
(* MockTests: submitting, by the button and by the timer.                  *)
(***************************************************************************)
\* Click on Submit Test (shown on the last question, disabled while loading):
\* handleSubmitTest of the current render.
SubmitClick ==
    LET req == SubmitRequest(currentTest[1], selectedAnswers, timeRemaining, FALSE)
    IN  /\ TestRendered
        /\ ~(currentQuestionIndex < currentTest[1].total_questions - 1)
        /\ ~loading
        /\ Cardinality(UpdatesInFlight) < MaxInFlight
        /\ req \notin requests
        /\ loading' = TRUE
        /\ requests' = requests \cup {req}
        /\ submitted' = submitted \cup {currentTest[1].id}
        /\ toasts' = <<>>
        /\ lastEvent' = "ui"
        /\ UNCHANGED exceptTest
        /\ UNCHANGED <<view, testHistory, currentTest, currentQuestionIndex,
                       selectedAnswers, timeRemaining, mock_tests, historyFetches>>
        /\ TimerEffect

\* One firing of the interval: setTimeRemaining(prev => prev - 1) above 1.
TickDown ==
    /\ intervals > 0
    /\ TimerArmed(view, currentTest, timeRemaining)
    /\ timeRemaining > 1
    /\ timeRemaining' = timeRemaining - 1
    /\ toasts' = <<>>
    /\ lastEvent' = "tick"
    /\ UNCHANGED exceptTest
    /\ UNCHANGED <<submitted, view, loading, testHistory, currentTest, currentQuestionIndex,
                   selectedAnswers, mock_tests, requests, historyFetches>>
    /\ TimerEffect

\* The firing at prev <= 1: clearInterval, handleSubmitTest() of the render the
\* effect last ran in (its selectedAnswers and its timeRemaining), return 0.
TickSubmit ==
    /\ intervals > 0
    /\ TimerArmed(view, currentTest, timeRemaining)
    /\ timeRemaining <= 1
    /\ timeRemaining' = 0
    /\ loading' = TRUE
    /\ requests' = requests
                     \cup {SubmitRequest(currentTest[1], timerAnswers, timeRemaining, TRUE)}
    /\ submitted' = submitted \cup {currentTest[1].id}
    /\ toasts' = <<>>
    /\ lastEvent' = "tick.handleSubmitTest"
    /\ UNCHANGED exceptTest
    /\ UNCHANGED <<view, testHistory, currentTest, currentQuestionIndex,
                   selectedAnswers, mock_tests, historyFetches>>
    /\ TimerEffect

\* The row after the update of handleSubmitTest.
Completed(row, payload) ==
    [row EXCEPT !.correct_answers = payload.correct_answers,
                !.time_taken = payload.time_taken,
                !.answers = payload.answers,
                !.status = "completed",
                !.score = payload.score]

\* The update succeeded: the row is completed, setCurrentTest({...currentTest, ...})
\* with the currentTest the handler closed over, setView("result").
SubmitOk(r) ==
    /\ r \in requests /\ r.kind = "update"
    /\ requests' = requests \ {r}
    /\ mock_tests' = [mock_tests EXCEPT ![r.test[1].id] = Completed(@, r.payload)]
    /\ currentTest' = <<Completed(r.test[1], r.payload)>>
    /\ view' = "result"
    /\ loading' = FALSE
    /\ toasts' = <<"success">>
    /\ lastEvent' = "handleSubmitTest.ok"
    /\ UNCHANGED exceptTest
    /\ UNCHANGED <<submitted, testHistory, currentQuestionIndex, selectedAnswers,
                   timeRemaining, historyFetches>>
    /\ TimerEffect

\* A variant of the error path below that goes on to the result view.
SubmitFailShowsResult(r) ==
    /\ r \in requests /\ r.kind = "update"
    /\ requests' = requests \ {r}
    /\ view' = "result"
    /\ loading' = FALSE
    /\ toasts' = <<"error">>
    /\ lastEvent' = "handleSubmitTest.error"
    /\ UNCHANGED exceptTest
    /\ UNCHANGED <<submitted, testHistory, currentTest, currentQuestionIndex,
                   selectedAnswers, timeRemaining, mock_tests, historyFetches>>
    /\ TimerEffect

\* The update returned an error: throw error, catch, finally.
SubmitFail(r) ==
    /\ r \in requests /\ r.kind = "update"
    /\ requests' = requests \ {r}
    /\ loading' = FALSE
    /\ toasts' = <<"error">>
    /\ lastEvent' = "handleSubmitTest.error"
    /\ UNCHANGED exceptTest
    /\ UNCHANGED <<submitted, view, testHistory, currentTest, currentQuestionIndex,
                   selectedAnswers, timeRemaining, mock_tests, historyFetches>>
    /\ TimerEffect

(***************************************************************************)
(* MockTests: leaving a test, and the history.                             *)
(***************************************************************************)
\* New Test (history and result views) and Take Another Test (result view).
ResetTest ==
    /\ view \in {"history", "result"}
    /\ currentTest' = <<>>
    /\ selectedAnswers' = <<>>
    /\ currentQuestionIndex' = 0
    /\ timeRemaining' = 0
    /\ view' = "setup"
    /\ historyFetches' = Min(historyFetches + 1, MaxFetches)
    /\ toasts' = <<>>
    /\ lastEvent' = "resetTest"
    /\ UNCHANGED exceptTest
    /\ UNCHANGED <<submitted, loading, testHistory, mock_tests, requests>>
    /\ TimerEffect

\* The History button of the setup view.
ShowHistory ==
    /\ view = "setup"
    /\ view' = "history"
    /\ toasts' = <<>>
    /\ lastEvent' = "ui"
    /\ UNCHANGED exceptTest
    /\ UNCHANGED <<submitted, loading, testHistory, currentTest, currentQuestionIndex,
                   selectedAnswers, timeRemaining, mock_tests, requests, historyFetches>>
    /\ TimerEffect

\* Take a Test, the action of the empty history.
TakeATest ==
    /\ view = "history"
    /\ testHistory = <<>>
    /\ view' = "setup"
    /\ toasts' = <<>>
    /\ lastEvent' = "ui"
    /\ UNCHANGED exceptTest
    /\ UNCHANGED <<submitted, loading, testHistory, currentTest, currentQuestionIndex,
                   selectedAnswers, timeRemaining, mock_tests, requests, historyFetches>>
    /\ TimerEffect

\* select ... .eq("status", "completed").order("created_at", desc).limit(10)
RECURSIVE CompletedIds(_, _)
CompletedIds(rows, i) ==
    IF i = 0 THEN <<>>
    ELSE (IF rows[i].status = "completed" THEN <<i>> ELSE <<>>) \o CompletedIds(rows, i - 1)

HistoryOf(rows) ==
    LET ids == CompletedIds(rows, Len(rows))
    IN  SubSeq(ids, 1, Min(Len(ids), HistoryLimit))

\* A fetchTestHistory select answered.
FetchHistoryOk ==
    /\ historyFetches > 0
    /\ historyFetches' = historyFetches - 1
    /\ testHistory' = HistoryOf(mock_tests)
    /\ toasts' = <<>>
    /\ lastEvent' = "ui"
    /\ UNCHANGED exceptTest
    /\ UNCHANGED <<submitted, view, loading, currentTest, currentQuestionIndex, selectedAnswers,
                   timeRemaining, mock_tests, requests>>
    /\ TimerEffect

\* A fetchTestHistory select failed: console.error only.
FetchHistoryFail ==
    /\ historyFetches > 0
    /\ historyFetches' = historyFetches - 1
    /\ toasts' = <<>>
    /\ lastEvent' = "ui"
    /\ UNCHANGED exceptTest
    /\ UNCHANGED <<submitted, view, loading, testHistory, currentTest, currentQuestionIndex,
                   selectedAnswers, timeRemaining, mock_tests, requests>>
    /\ TimerEffect

(***************************************************************************)
(* MockInterviews: the server-sent-event stream of a reply and its reader. *)
(* The text of the stream is a sequence of pieces: the line prefix         *)
(* "data: ", the JSON text of a delta ("{", its content if any, "}"), the  *)
(* marker "[DONE]" and the newline. A read chunk is any non-empty run of   *)
(* pieces; a delta's content is one of ContentTexts.                       *)
(***************************************************************************)
ContentTexts == {"x", "y"}

\* A data event is <<c>> (choices[0].delta.content = c) or <<>> (a delta
\* without content, such as the role-only first delta).
DataEvents == {<<>>} \cup {<<c>> : c \in ContentTexts}

\* The gateway's text for a list of data events, closed by the [DONE] event.
RECURSIVE StreamText(_)
StreamText(events) ==
    IF events = <<>> THEN <<"data: ", "[DONE]", "\n", "\n">>
    ELSE <<"data: ", "{">> \o Head(events) \o <<"}", "\n", "\n">> \o StreamText(Tail(events))

\* chunk.split("\n"), building the line cur piece by piece
RECURSIVE Split(_, _)
Split(chunk, cur) ==
    IF chunk = <<>> THEN <<cur>>
    ELSE IF Head(chunk) = "\n" THEN <<cur>> \o Split(Tail(chunk), <<>>)
    ELSE Split(Tail(chunk), Append(cur, Head(chunk)))

\* JSON.parse(text) then json.choices?.[0]?.delta?.content: <<c>>, or <<>>
\* when there is no content or when the text is not complete JSON (the
\* SyntaxError is caught and ignored).
DeltaContent(text) ==
    IF Len(text) = 3 /\ text[1] = "{" /\ text[3] = "}" /\ text[2] \in ContentTexts
    THEN <<text[2]>>
    ELSE <<>>

\* The body of the for loop over the lines: what one line adds to aiMessage.
LineContent(line) ==
    IF /\ Len(line) >= 1 /\ line[1] = "data: "
       /\ line # <<"data: ", "[DONE]">>
    THEN DeltaContent(Tail(line))
    ELSE <<>>

RECURSIVE LinesContent(_)
LinesContent(lines) ==
    IF lines = <<>> THEN <<>>
    ELSE LineContent(Head(lines)) \o LinesContent(Tail(lines))

\* What one read chunk adds to aiMessage.
ChunkContent(chunk) == LinesContent(Split(chunk, <<>>))

\* The in-order concatenation of the delta contents of a list of data events.
RECURSIVE Concatenation(_)
Concatenation(events) ==
    IF events = <<>> THEN <<>>
    ELSE Head(events) \o Concatenation(Tail(events))

Message(role, content) == [role |-> role, content |-> content]

(***************************************************************************)
(* MockInterviews: values and initial state.                               *)
(***************************************************************************)
\* The texts typed into the answer box.
InputTexts == {<<>>, <<" ">>, <<"a", " ">>}

\* String.prototype.trim
RECURSIVE TrimStart(_)
TrimStart(text) ==
    IF text # <<>> /\ Head(text) = " " THEN TrimStart(Tail(text)) ELSE text

RECURSIVE TrimEnd(_)
TrimEnd(text) ==
    IF text # <<>> /\ text[Len(text)] = " "
    THEN TrimEnd(SubSeq(text, 1, Len(text) - 1)) ELSE text

Trim(text) == TrimEnd(TrimStart(text))

\* The feedback objects the feedback call may return; overallRating is <<n>>
\* or <<>> when the object has no such member.
FeedbackObjects == {[overallRating |-> <<7>>], [overallRating |-> <<>>]}
NoFeedback == [overallRating |-> <<>>]

\* A suspended call of startInterview, sendMessage or endInterview with the
\* locals it closed over: the interview row, updatedMessages (base),
\* aiMessage, the unread text of the reply stream, the data events that
\* stream was made of, and feedbackData.
Call(handler, stage, interview, base, aiMessage, rest, events, data) ==
    [handler |-> handler, stage |-> stage, interview |-> interview, base |-> base,
     aiMessage |-> aiMessage, rest |-> rest, events |-> events, data |-> data]

\* A new row of mock_interviews: the insert of startInterview and the
\* column defaults.
NewInterview(id) ==
    [id |-> id, messages |-> <<>>, questions_asked |-> 0, feedback |-> <<>>,
     overall_rating |-> <<>>, status |-> "in_progress"]

InitInterview ==
    /\ interviewView = "setup"
    /\ interviewLoading = FALSE
    /\ sendingMessage = FALSE
    /\ interviewHistory = <<>>
    /\ currentInterview = <<>>
    /\ messages = <<>>
    /\ inputMessage = <<>>
    /\ feedback = <<>>
    /\ mock_interviews = <<>>
    /\ calls = {}
    /\ interviewFetches = 1
    /\ started = {}

CallsOf(handler) == {c \in calls : c.handler = handler}

\* The reply under construction as the reader shows and keeps it.
Reply(c, aiMessage) == Append(c.base, Message("assistant", aiMessage))

\* finalMessages.filter(m => m.role === "assistant").length
AssistantCount(list) == Cardinality({i \in 1..Len(list) : list[i].role = "assistant"})

(***************************************************************************)
(* MockInterviews: startInterview.                                         *)
(***************************************************************************)
\* Click on Start Interview (setup view, disabled while loading; targetRole
\* keeps its non-blank default): setLoading(true) and the insert.
StartInterview(limit) ==
    LET c == Call("startInterview", "insert", <<>>, <<>>, <<>>, <<>>, <<>>, NoFeedback)
    IN  /\ interviewView = "setup"
        /\ ~interviewLoading
        /\ Len(mock_interviews) + Cardinality({d \in calls : d.stage = "insert"}) < limit
        /\ interviewLoading' = TRUE
        /\ calls' = calls \cup {c}
        /\ toasts' = <<>>
        /\ lastEvent' = "ui"
        /\ UNCHANGED exceptInterview
        /\ UNCHANGED started
        /\ UNCHANGED <<interviewView, sendingMessage, interviewHistory, currentInterview,
                       messages, inputMessage, feedback, mock_interviews, interviewFetches>>

\* A failure caught by startInterview: toast.error, and finally setLoading(false).
StartFailed(c) ==
    /\ calls' = calls \ {c}
    /\ interviewLoading' = FALSE
    /\ toasts' = <<"error">>
    /\ lastEvent' = "startInterview.error"
    /\ UNCHANGED exceptInterview
    /\ UNCHANGED started
    /\ UNCHANGED <<interviewView, sendingMessage, interviewHistory, currentInterview,
                   messages, inputMessage, feedback, mock_interviews, interviewFetches>>

\* if (insertError) throw insertError
StartInsertFail(c) ==
    /\ c \in calls /\ c.handler = "startInterview" /\ c.stage = "insert"
    /\ StartFailed(c)

\* The insert succeeded; the handler goes on to the start call.
StartInsertOk(c) ==
    LET id == Len(mock_interviews) + 1
    IN  /\ c \in calls /\ c.handler = "startInterview" /\ c.stage = "insert"
        /\ mock_interviews' = Append(mock_interviews, NewInterview(id))
        /\ calls' = (calls \ {c}) \cup {[c EXCEPT !.stage = "fetch", !.interview = <<id>>]}
        /\ toasts' = <<>>
        /\ lastEvent' = "startInterview.insert"
        /\ UNCHANGED exceptInterview
        /\ UNCHANGED started
        /\ UNCHANGED <<interviewView, interviewLoading, sendingMessage, interviewHistory,
                       currentInterview, messages, inputMessage, feedback, interviewFetches>>

\* The start call failed (fetch rejected, or !response.ok).
StartFetchFail(c) ==
    /\ c \in calls /\ c.handler = "startInterview" /\ c.stage = "fetch"
    /\ StartFailed(c)

\* The start call answered with a stream made of the given data events.
StartFetchOk(c, events) ==
    /\ c \in calls /\ c.handler = "startInterview" /\ c.stage = "fetch"
    /\ calls' = (calls \ {c}) \cup
                {[c EXCEPT !.stage = "stream", !.rest = StreamText(events), !.events = events]}
    /\ toasts' = <<>>
    /\ lastEvent' = "startInterview.stream"
    /\ UNCHANGED exceptInterview
    /\ started' = started \cup {c.interview[1]}
    /\ UNCHANGED <<interviewView, interviewLoading, sendingMessage, interviewHistory,
                   currentInterview, messages, inputMessage, feedback, mock_interviews,
                   interviewFetches>>

\* reader.read() delivered the next k pieces of the stream as one chunk.
StartRead(c, k) ==
    LET content == ChunkContent(SubSeq(c.rest, 1, k))
        aiMessage == c.aiMessage \o content
    IN  /\ c \in calls /\ c.handler = "startInterview" /\ c.stage = "stream"
        /\ k \in 1..Len(c.rest)
        /\ calls' = (calls \ {c}) \cup
                    {[c EXCEPT !.rest = SubSeq(c.rest, k + 1, Len(c.rest)),
                               !.aiMessage = aiMessage]}
        /\ messages' = IF content # <<>> THEN <<Message("assistant", aiMessage)>> ELSE messages
        /\ toasts' = <<>>
        /\ lastEvent' = "startInterview.read"
        /\ UNCHANGED exceptInterview
        /\ UNCHANGED started
        /\ UNCHANGED <<interviewView, interviewLoading, sendingMessage, interviewHistory,
                       currentInterview, inputMessage, feedback, mock_interviews,
                       interviewFetches>>

\* reader.read() rejected (the connection broke while the reply was read).
StartReadError(c) ==
    /\ c \in calls /\ c.handler = "startInterview" /\ c.stage = "stream"
    /\ StartFailed(c)

\* reader.read() reported done: setMessages(initialMessages) and the update.
StartReadDone(c) ==
    /\ c \in calls /\ c.handler = "startInterview" /\ c.stage = "stream"
    /\ c.rest = <<>>
    /\ messages' = <<Message("assistant", c.aiMessage)>>
    /\ calls' = (calls \ {c}) \cup {[c EXCEPT !.stage = "update"]}
    /\ toasts' = <<>>
    /\ lastEvent' = "startInterview.update"
    /\ UNCHANGED exceptInterview
    /\ UNCHANGED started
    /\ UNCHANGED <<interviewView, interviewLoading, sendingMessage, interviewHistory,
                   currentInterview, inputMessage, feedback, mock_interviews,
                   interviewFetches>>

\* reader.read() reported done before the whole reply was delivered (the
\* stream was closed early): the loop ends as for a complete stream; c.rest
\* keeps what was never delivered.
StartStreamEnded(c) ==
    /\ c \in calls /\ c.handler = "startInterview" /\ c.stage = "stream"
    /\ c.rest # <<>>
    /\ messages' = <<Message("assistant", c.aiMessage)>>
    /\ calls' = (calls \ {c}) \cup {[c EXCEPT !.stage = "update"]}
    /\ toasts' = <<>>
    /\ lastEvent' = "startInterview.update"
    /\ UNCHANGED exceptInterview
    /\ UNCHANGED started
    /\ UNCHANGED <<interviewView, interviewLoading, sendingMessage, interviewHistory,
                   currentInterview, inputMessage, feedback, mock_interviews,
                   interviewFetches>>

\* The update answered; its result is not looked at. ok tells whether the
\* row was written.
StartUpdateDone(c, ok) ==
    LET id == c.interview[1]
    IN  /\ c \in calls /\ c.handler = "startInterview" /\ c.stage = "update"
        /\ mock_interviews' =
               IF ok THEN [mock_interviews EXCEPT
                              ![id].messages = <<Message("assistant", c.aiMessage)>>,
                              ![id].questions_asked = 1]
               ELSE mock_interviews
        /\ calls' = calls \ {c}
        /\ currentInterview' = c.interview
        /\ interviewView' = "interview"
        /\ interviewLoading' = FALSE
        /\ toasts' = <<"success">>
        /\ lastEvent' = IF ok THEN "startInterview.ok" ELSE "startInterview.updateError"
        /\ UNCHANGED exceptInterview
        /\ UNCHANGED started
        /\ UNCHANGED <<sendingMessage, interviewHistory, messages, inputMessage, feedback,
                       interviewFetches>>

(***************************************************************************)
(* MockInterviews: sendMessage.                                            *)
(***************************************************************************)
\* The interview view renders when view === "interview" && currentInterview.
InterviewRendered == interviewView = "interview" /\ currentInterview # <<>>

UserTurns(list) == Cardinality({i \in 1..Len(list) : list[i].role = "user"})

\* The answer box changes (onChange).
SetInputMessage(text) ==
    /\ InterviewRendered
    /\ text # inputMessage
    /\ inputMessage' = text
    /\ toasts' = <<>>
    /\ lastEvent' = "ui"
    /\ UNCHANGED exceptInterview
    /\ UNCHANGED started
    /\ UNCHANGED <<interviewView, interviewLoading, sendingMessage, interviewHistory,
                   currentInterview, messages, feedback, mock_interviews, calls,
                   interviewFetches>>

\* Send button or Enter key: sendMessage up to its await.
SendMessage(limit) ==
    LET userMessage == Message("user", Trim(inputMessage))
        updatedMessages == Append(messages, userMessage)
    IN  /\ InterviewRendered
        /\ ~(Trim(inputMessage) = <<>> \/ currentInterview = <<>> \/ sendingMessage)
        /\ UserTurns(messages) < limit
        /\ messages' = updatedMessages
        /\ inputMessage' = <<>>
        /\ sendingMessage' = TRUE
        /\ calls' = calls \cup {Call("sendMessage", "fetch", currentInterview, updatedMessages,
                                     <<>>, <<>>, <<>>, NoFeedback)}
        /\ toasts' = <<>>
        /\ lastEvent' = "ui"
        /\ UNCHANGED exceptInterview
        /\ UNCHANGED started
        /\ UNCHANGED <<interviewView, interviewLoading, interviewHistory, currentInterview,
                       feedback, mock_interviews, interviewFetches>>

\* A failure caught by sendMessage: toast.error, and finally setSendingMessage(false).
SendFailed(c) ==
    /\ calls' = calls \ {c}
    /\ sendingMessage' = FALSE
    /\ toasts' = <<"error">>
    /\ lastEvent' = "sendMessage.error"
    /\ UNCHANGED exceptInterview
    /\ UNCHANGED started
    /\ UNCHANGED <<interviewView, interviewLoading, interviewHistory, currentInterview,
                   messages, inputMessage, feedback, mock_interviews, interviewFetches>>

\* The continue call failed (fetch rejected, or !response.ok).
SendFetchFail(c) ==
    /\ c \in calls /\ c.handler = "sendMessage" /\ c.stage = "fetch"
    /\ SendFailed(c)

\* The continue call answered with a stream made of the given data events.
SendFetchOk(c, events) ==
    /\ c \in calls /\ c.handler = "sendMessage" /\ c.stage = "fetch"
    /\ calls' = (calls \ {c}) \cup
                {[c EXCEPT !.stage = "stream", !.rest = StreamText(events), !.events = events]}
    /\ toasts' = <<>>
    /\ lastEvent' = "sendMessage.stream"
    /\ UNCHANGED exceptInterview
    /\ UNCHANGED started
    /\ UNCHANGED <<interviewView, interviewLoading, sendingMessage, interviewHistory,
                   currentInterview, messages, inputMessage, feedback, mock_interviews,
                   interviewFetches>>

\* reader.read() delivered the next k pieces of the stream as one chunk.
SendRead(c, k) ==
    LET content == ChunkContent(SubSeq(c.rest, 1, k))
        aiMessage == c.aiMessage \o content
    IN  /\ c \in calls /\ c.handler = "sendMessage" /\ c.stage = "stream"
        /\ k \in 1..Len(c.rest)
        /\ calls' = (calls \ {c}) \cup
                    {[c EXCEPT !.rest = SubSeq(c.rest, k + 1, Len(c.rest)),
                               !.aiMessage = aiMessage]}
        /\ messages' = IF content # <<>> THEN Reply(c, aiMessage) ELSE messages
        /\ toasts' = <<>>
        /\ lastEvent' = "sendMessage.read"
        /\ UNCHANGED exceptInterview
        /\ UNCHANGED started
        /\ UNCHANGED <<interviewView, interviewLoading, sendingMessage, interviewHistory,
                       currentInterview, inputMessage, feedback, mock_interviews,
                       interviewFetches>>

\* reader.read() rejected (the connection broke while the reply was read).
SendReadError(c) ==
    /\ c \in calls /\ c.handler = "sendMessage" /\ c.stage = "stream"
    /\ SendFailed(c)

\* reader.read() reported done: setMessages(finalMessages) and the update.
SendReadDone(c) ==
    /\ c \in calls /\ c.handler = "sendMessage" /\ c.stage = "stream"
    /\ c.rest = <<>>
    /\ messages' = Reply(c, c.aiMessage)
    /\ calls' = (calls \ {c}) \cup {[c EXCEPT !.stage = "update"]}
    /\ toasts' = <<>>
    /\ lastEvent' = "sendMessage.update"
    /\ UNCHANGED exceptInterview
    /\ UNCHANGED started
    /\ UNCHANGED <<interviewView, interviewLoading, sendingMessage, interviewHistory,
                   currentInterview, inputMessage, feedback, mock_interviews,
                   interviewFetches>>

\* reader.read() reported done before the whole reply was delivered.
SendStreamEnded(c) ==
    /\ c \in calls /\ c.handler = "sendMessage" /\ c.stage = "stream"
    /\ c.rest # <<>>
    /\ messages' = Reply(c, c.aiMessage)
    /\ calls' = (calls \ {c}) \cup {[c EXCEPT !.stage = "update"]}
    /\ toasts' = <<>>
    /\ lastEvent' = "sendMessage.update"
    /\ UNCHANGED exceptInterview
    /\ UNCHANGED started
    /\ UNCHANGED <<interviewView, interviewLoading, sendingMessage, interviewHistory,
                   currentInterview, inputMessage, feedback, mock_interviews,
                   interviewFetches>>

\* The update answered; its result is not looked at. finally setSendingMessage(false).
SendUpdateDone(c, ok) ==
    LET id == c.interview[1]
        finalMessages == Reply(c, c.aiMessage)
    IN  /\ c \in calls /\ c.handler = "sendMessage" /\ c.stage = "update"
        /\ mock_interviews' =
               IF ok THEN [mock_interviews EXCEPT
                              ![id].messages = finalMessages,
                              ![id].questions_asked = AssistantCount(finalMessages)]
               ELSE mock_interviews
        /\ calls' = calls \ {c}
        /\ sendingMessage' = FALSE
        /\ toasts' = <<>>
        /\ lastEvent' = IF ok THEN "sendMessage.ok" ELSE "sendMessage.updateError"
        /\ UNCHANGED exceptInterview
        /\ UNCHANGED started
        /\ UNCHANGED <<interviewView, interviewLoading, interviewHistory, currentInterview,
                       messages, inputMessage, feedback, interviewFetches>>

(***************************************************************************)
(* MockInterviews: endInterview.                                           *)
(***************************************************************************)
\* Click on End Interview (disabled while loading): setLoading(true) and the
\* feedback call, which the function serves with stream: false.
EndInterview ==
    /\ InterviewRendered
    /\ ~interviewLoading
    /\ interviewLoading' = TRUE
    /\ calls' = calls \cup {Call("endInterview", "fetch", currentInterview, messages,
                                 <<>>, <<>>, <<>>, NoFeedback)}
    /\ toasts' = <<>>
    /\ lastEvent' = "ui"
    /\ UNCHANGED exceptInterview
    /\ UNCHANGED started
    /\ UNCHANGED <<interviewView, sendingMessage, interviewHistory, currentInterview,
                   messages, inputMessage, feedback, mock_interviews, interviewFetches>>

\* The feedback call failed (fetch rejected, !response.ok, or a body that
\* response.json() cannot parse): toast.error, finally setLoading(false).
EndFetchFail(c) ==
    /\ c \in calls /\ c.handler = "endInterview" /\ c.stage = "fetch"
    /\ calls' = calls \ {c}
    /\ interviewLoading' = FALSE
    /\ toasts' = <<"error">>
    /\ lastEvent' = "endInterview.error"
    /\ UNCHANGED exceptInterview
    /\ UNCHANGED started
    /\ UNCHANGED <<interviewView, sendingMessage, interviewHistory, currentInterview,
                   messages, inputMessage, feedback, mock_interviews, interviewFetches>>

\* The feedback call answered with feedbackData: setFeedback and the update.
EndFetchOk(c, feedbackData) ==
    /\ c \in calls /\ c.handler = "endInterview" /\ c.stage = "fetch"
    /\ feedback' = <<feedbackData>>
    /\ calls' = (calls \ {c}) \cup {[c EXCEPT !.stage = "update", !.data = feedbackData]}
    /\ toasts' = <<>>
    /\ lastEvent' = "endInterview.update"
    /\ UNCHANGED exceptInterview
    /\ UNCHANGED started
    /\ UNCHANGED <<interviewView, interviewLoading, sendingMessage, interviewHistory,
                   currentInterview, messages, inputMessage, mock_interviews,
                   interviewFetches>>

\* The update answered; its result is not looked at: setView("feedback").
EndUpdateDone(c, ok) ==
    LET id == c.interview[1]
    IN  /\ c \in calls /\ c.handler = "endInterview" /\ c.stage = "update"
        /\ mock_interviews' =
               IF ok THEN [mock_interviews EXCEPT
                              ![id].feedback = <<c.data>>,
                              ![id].overall_rating = c.data.overallRating,
                              ![id].status = "completed"]
               ELSE mock_interviews
        /\ calls' = calls \ {c}
        /\ interviewView' = "feedback"
        /\ interviewLoading' = FALSE
        /\ toasts' = <<"success">>
        /\ lastEvent' = IF ok THEN "endInterview.ok" ELSE "endInterview.updateError"
        /\ UNCHANGED exceptInterview
        /\ UNCHANGED started
        /\ UNCHANGED <<sendingMessage, interviewHistory, currentInterview, messages,
                       inputMessage, feedback, interviewFetches>>

(***************************************************************************)
(* MockInterviews: reset, history.                                         *)
(***************************************************************************)
\* New Interview (history and feedback views) or Start New Interview
\* (feedback view): resetInterview.
ResetInterview ==
    /\ interviewView \in {"history", "feedback"}
    /\ currentInterview' = <<>>
    /\ messages' = <<>>
    /\ feedback' = <<>>
    /\ interviewView' = "setup"
    /\ interviewFetches' = Min(interviewFetches + 1, MaxFetches)
    /\ toasts' = <<>>
    /\ lastEvent' = "resetInterview"
    /\ UNCHANGED exceptInterview
    /\ UNCHANGED started
    /\ UNCHANGED <<interviewLoading, sendingMessage, interviewHistory, inputMessage,
                   mock_interviews, calls>>

\* The History button of the setup view.
ShowInterviewHistory ==
    /\ interviewView = "setup"
    /\ interviewView' = "history"
    /\ toasts' = <<>>
    /\ lastEvent' = "ui"
    /\ UNCHANGED exceptInterview
    /\ UNCHANGED started
    /\ UNCHANGED <<interviewLoading, sendingMessage, interviewHistory, currentInterview,
                   messages, inputMessage, feedback, mock_interviews, calls,
                   interviewFetches>>

\* The Start Interview action of the empty history.
StartFromHistory ==
    /\ interviewView = "history"
    /\ interviewHistory = <<>>
    /\ interviewView' = "setup"
    /\ toasts' = <<>>
    /\ lastEvent' = "ui"
    /\ UNCHANGED exceptInterview
    /\ UNCHANGED started
    /\ UNCHANGED <<interviewLoading, sendingMessage, interviewHistory, currentInterview,
                   messages, inputMessage, feedback, mock_interviews, calls,
                   interviewFetches>>

\* Click on a card of the history: viewHistoryInterview.
ViewHistoryInterview(i) ==
    /\ interviewView = "history"
    /\ i \in 1..Len(interviewHistory)
    /\ LET interview == interviewHistory[i]
       IN  /\ currentInterview' = <<interview.id>>
           /\ messages' = interview.messages
           /\ IF interview.feedback # <<>>
              THEN feedback' = interview.feedback /\ interviewView' = "feedback"
              ELSE feedback' = feedback /\ interviewView' = "interview"
    /\ toasts' = <<>>
    /\ lastEvent' = "ui"
    /\ UNCHANGED exceptInterview
    /\ UNCHANGED started
    /\ UNCHANGED <<interviewLoading, sendingMessage, interviewHistory, inputMessage,
                   mock_interviews, calls, interviewFetches>>

\* The rows newest first, at most HistoryLimit of them.
RECURSIVE NewestFirst(_)
NewestFirst(rows) ==
    IF rows = <<>> THEN <<>>
    ELSE <<rows[Len(rows)]>> \o NewestFirst(SubSeq(rows, 1, Len(rows) - 1))

\* fetchInterviewHistory answered with the rows.
FetchInterviewHistoryOk ==
    /\ interviewFetches > 0
    /\ interviewFetches' = interviewFetches - 1
    /\ interviewHistory' = SubSeq(NewestFirst(mock_interviews), 1,
                                  Min(HistoryLimit, Len(mock_interviews)))
    /\ toasts' = <<>>
    /\ lastEvent' = "fetchInterviewHistory.ok"
    /\ UNCHANGED exceptInterview
    /\ UNCHANGED started
    /\ UNCHANGED <<interviewView, interviewLoading, sendingMessage, currentInterview,
                   messages, inputMessage, feedback, mock_interviews, calls>>

\* fetchInterviewHistory failed: console.error only.
FetchInterviewHistoryFail ==
    /\ interviewFetches > 0
    /\ interviewFetches' = interviewFetches - 1
    /\ toasts' = <<>>
    /\ lastEvent' = "fetchInterviewHistory.error"
    /\ UNCHANGED exceptInterview
    /\ UNCHANGED started
    /\ UNCHANGED <<interviewView, interviewLoading, sendingMessage, interviewHistory,
                   currentInterview, messages, inputMessage, feedback, mock_interviews,
                   calls>>

(***************************************************************************)
(* The practice streak. Dates are day numbers: the source compares ISO     *)
(* date strings (YYYY-MM-DD), whose order and equality are those of the    *)
(* days; today is the day new Date().toISOString() names.                  *)
(***************************************************************************)
InitStreak ==
    /\ today = 1
    /\ coding_problems = [d \in 1..MaxDay |-> 0]
    /\ streak = 0
    /\ currentStreak = 0

\* The fetched rows' date_practiced values, one per row.
RECURSIVE ProblemList(_, _)
ProblemList(table, d) ==
    IF d = 0 THEN <<>>
    ELSE [i \in 1..table[d] |-> d] \o ProblemList(table, d - 1)

\* [...new Set(list.map((p) => p.date_practiced))].sort().reverse()
RECURSIVE SortedDescending(_)
SortedDescending(S) ==
    IF S = {} THEN <<>>
    ELSE LET top == CHOOSE x \in S : \A y \in S : y <= x
         IN  <<top>> \o SortedDescending(S \ {top})

UniqueDates(list) == SortedDescending({list[i] : i \in 1..Len(list)})

\* CodingPractice, the for loop of calculateStreak from index i (0-based) on:
\* expected is today minus i days.
RECURSIVE StreakLoop(_, _, _, _)
StreakLoop(dates, i, now, count) ==
    IF ~(i < Len(dates)) THEN count
    ELSE LET expected == now - i
         IN  IF dates[i + 1] = expected \/ (i = 0 /\ dates[i + 1] = now)
             THEN StreakLoop(dates, i + 1, now, count + 1)
             ELSE count

\* CodingPractice.calculateStreak
CalculateStreak(list, now) ==
    IF Len(list) = 0 THEN 0
    ELSE StreakLoop(UniqueDates(list), 0, now, 0)

\* Dashboard.fetchStats, the same loop over sortedDates.
RECURSIVE DashboardLoop(_, _, _, _)
DashboardLoop(sortedDates, i, now, count) ==
    IF ~(i < Len(sortedDates)) THEN count
    ELSE LET expected == now - i
         IN  IF sortedDates[i + 1] = expected \/ (i = 0 /\ sortedDates[i + 1] = now)
             THEN DashboardLoop(sortedDates, i + 1, now, count + 1)
             ELSE count

\* Dashboard.fetchStats: let streak = 0; if (codingProblems && codingProblems.length > 0) ...
DashboardStreak(list, now) ==
    IF Len(list) > 0 THEN DashboardLoop(UniqueDates(list), 0, now, 0) ELSE 0

\* CodingPractice.handleSubmit of a new problem with date_practiced = d (any
\* day the date input gives, also a later one): the insert, then fetchProblems.
InsertProblem(d) ==
    /\ coding_problems[d] < MaxPerDay
    /\ coding_problems' = [coding_problems EXCEPT ![d] = @ + 1]
    /\ streak' = CalculateStreak(ProblemList(coding_problems', MaxDay), today)
    /\ toasts' = <<"success">>
    /\ lastEvent' = "handleSubmit"
    /\ UNCHANGED exceptStreak
    /\ UNCHANGED <<today, currentStreak>>

\* CodingPractice.handleDelete: the delete, then fetchProblems.
DeleteProblem(d) ==
    /\ coding_problems[d] > 0
    /\ coding_problems' = [coding_problems EXCEPT ![d] = @ - 1]
    /\ streak' = CalculateStreak(ProblemList(coding_problems', MaxDay), today)
    /\ toasts' = <<"success">>
    /\ lastEvent' = "handleDelete"
    /\ UNCHANGED exceptStreak
    /\ UNCHANGED <<today, currentStreak>>

\* CodingPractice.fetchProblems succeeded: setProblems, calculateStreak.
FetchProblems ==
    /\ streak' = CalculateStreak(ProblemList(coding_problems, MaxDay), today)
    /\ toasts' = <<>>
    /\ lastEvent' = "fetchProblems"
    /\ UNCHANGED exceptStreak
    /\ UNCHANGED <<today, coding_problems, currentStreak>>

\* Dashboard.fetchStats succeeded.
FetchStats ==
    /\ currentStreak' = DashboardStreak(ProblemList(coding_problems, MaxDay), today)
    /\ toasts' = <<>>
    /\ lastEvent' = "fetchStats"
    /\ UNCHANGED exceptStreak
    /\ UNCHANGED <<today, coding_problems, streak>>

\* Midnight passes.
NextDay ==
    /\ today < MaxDay
    /\ today' = today + 1
    /\ toasts' = <<>>
    /\ lastEvent' = "nextDay"
    /\ UNCHANGED exceptStreak
    /\ UNCHANGED <<coding_problems, streak, currentStreak>>

NextStreak ==
    \/ \E d \in 1..MaxDay : InsertProblem(d)
    \/ \E d \in 1..MaxDay : DeleteProblem(d)
    \/ FetchProblems
    \/ FetchStats
    \/ NextDay

(***************************************************************************)
(* The edge functions analyze-resume, generate-test and mock-interview     *)
(* (action feedback): what they make of the content the AI gateway         *)
(* returned. The content is a sequence of pieces: "{" and "}", "m" (the    *)
(* text of a member or element), "t" (prose), " " (white space) and "fence"  *)
(* (a code fence).                                                         *)
(***************************************************************************)
ContentPieces == {"{", "}", "m", "t", " ", "fence"}

Contents == SeqsUpTo(ContentPieces, MaxContent)

\* The position after the object that starts at text[i], reading its
\* members from position j on; 0 when there is no complete object.
RECURSIVE ObjectEnd(_, _)
ObjectEnd(text, j) ==
    IF j > Len(text) THEN 0
    ELSE IF text[j] = "}" THEN j + 1
    ELSE IF text[j] \in {"m", " "} THEN ObjectEnd(text, j + 1)
    ELSE IF text[j] = "{"
         THEN LET inner == ObjectEnd(text, j + 1)
              IN  IF inner = 0 THEN 0 ELSE ObjectEnd(text, inner)
    ELSE 0

\* JSON.parse(text) does not throw: the text is one object, white space
\* around it allowed.
JsonParses(text) ==
    LET t == Trim(text)
    IN  /\ t # <<>>
        /\ t[1] = "{"
        /\ ObjectEnd(t, 2) = Len(t) + 1

Positions(text, piece) == {i \in 1..Len(text) : text[i] = piece}
First(S) == CHOOSE i \in S : \A j \in S : i <= j
Last(S) == CHOOSE i \in S : \A j \in S : j <= i

\* content.match(/\{[\s\S]*\}/): <<the match>>, or <<>> for null. The match
\* runs from the first "{" to the last "}" after it.
BraceMatch(content) ==
    LET opens == Positions(content, "{")
        closes == {j \in Positions(content, "}") : opens # {} /\ j > First(opens)}
    IN  IF opens = {} \/ closes = {} THEN <<>>
        ELSE <<SubSeq(content, First(opens), Last(closes))>>

\* content.match(/fence(?:json)?\s*([\s\S]*?)fence/): <<group 1>>, or <<>>
\* for null. Group 1 runs from the first fence to the next one.
FenceMatch(content) ==
    LET fences == Positions(content, "fence")
        later == {j \in fences : j > First(fences)}
    IN  IF fences = {} \/ later = {} THEN <<>>
        ELSE <<SubSeq(content, First(fences) + 1, First(later) - 1)>>

\* A response: its status, and its body as "parsed" (the JSON text of the
\* value parsed from text), "raw" (text as it is), "placeholder" or "error".
Response(status, kind, text) == [status |-> status, kind |-> kind, text |-> text]
NoResponse == Response(0, "none", <<>>)

\* analyze-resume: no content throws; a parse failure is replaced by the
\* placeholder analysis.
AnalyzeResume(content) ==
    IF content = <<>> THEN Response(500, "error", <<>>)
    ELSE LET jsonMatch == FenceMatch(content)
             jsonStr == IF jsonMatch # <<>> /\ Trim(jsonMatch[1]) # <<>>
                        THEN Trim(jsonMatch[1]) ELSE Trim(content)
         IN  IF JsonParses(jsonStr) THEN Response(200, "parsed", jsonStr)
             ELSE Response(200, "placeholder", <<>>)

\* generate-test: no match throws, and so does JSON.parse of the match.
GenerateTest(content) ==
    LET jsonMatch == BraceMatch(content)
    IN  IF jsonMatch = <<>> THEN Response(500, "error", <<>>)
        ELSE IF JsonParses(jsonMatch[1]) THEN Response(200, "parsed", jsonMatch[1])
        ELSE Response(500, "error", <<>>)

\* mock-interview, action feedback: no match throws; the match is sent as it is.
InterviewFeedback(content) ==
    LET jsonMatch == BraceMatch(content)
    IN  IF jsonMatch = <<>> THEN Response(500, "error", <<>>)
        ELSE Response(200, "raw", jsonMatch[1])

InitEndpoints ==
    /\ aiContent = <<>>
    /\ response = NoResponse

\* One request served by a function whose gateway call returned content.
ServeAnalyzeResume(content) ==
    /\ aiContent' = content
    /\ response' = AnalyzeResume(content)
    /\ toasts' = <<>>
    /\ lastEvent' = "analyze-resume"
    /\ UNCHANGED exceptEndpoints

ServeGenerateTest(content) ==
    /\ aiContent' = content
    /\ response' = GenerateTest(content)
    /\ toasts' = <<>>
    /\ lastEvent' = "generate-test"
    /\ UNCHANGED exceptEndpoints

ServeInterviewFeedback(content) ==
    /\ aiContent' = content
    /\ response' = InterviewFeedback(content)
    /\ toasts' = <<>>
    /\ lastEvent' = "mock-interview"
    /\ UNCHANGED exceptEndpoints

NextEndpoints ==
    \/ \E content \in Contents : ServeAnalyzeResume(content)
    \/ \E content \in Contents : ServeGenerateTest(content)
    \/ \E content \in Contents : ServeInterviewFeedback(content)

(***************************************************************************)
(* The record pages: Learning (learning_goals), CodingPractice             *)
(* (coding_problems), Applications (applications) and Resumes (resumes).   *)
(* Each lists the user's rows and has a dialog form to create or edit one  *)
(* and a confirmed delete. One page is open in a session.                  *)
(***************************************************************************)
RecordPages == {"learning", "coding", "applications", "resumes"}

\* A form: the name field (topic_name, problem_name, company_name,
\* resume_name), the second required field (skill_name, platform, role),
\* whether a date is filled in, and whether a file is chosen.
Form(name, second, date, file) ==
    [name |-> name, second |-> second, date |-> date, file |-> file]

\* The values a select gives: none, or an option.
SelectValues == {<<>>, <<"a">>}

\* The forms a page's dialog can hold.
Forms(p) ==
    {Form(name, second, date, file) :
        name \in InputTexts,
        second \in IF p = "applications" THEN InputTexts
                   ELSE IF p = "resumes" THEN {<<>>} ELSE SelectValues,
        date \in IF p = "coding" THEN BOOLEAN ELSE {TRUE},
        file \in IF p = "resumes" THEN BOOLEAN ELSE {FALSE}}

\* A row: its id, the stored name and second field, and file_url (<<>> is null).
Row(id, name, second, file_url) ==
    [id |-> id, name |-> name, second |-> second, file_url |-> file_url]

\* A request in flight: "upload", "insert", "update" or "delete", the row data
\* it carries (data.id is the row it is aimed at, 0 for an insert).
PageRequest(kind, data) == [kind |-> kind, data |-> data]

\* A variant that tests the text as typed.
BlankAsTyped(text) == text = <<>>

\* !text after text.trim()
Blank(text) == Trim(text) = <<>>

InitRecords ==
    /\ page = "none"
    /\ stored = {}
    /\ records = <<>>
    /\ form = Form(<<>>, <<>>, TRUE, FALSE)
    /\ isDialogOpen = FALSE
    /\ editing = <<>>
    /\ deleteConfirm = <<>>
    /\ submitting = FALSE
    /\ uploadingFile = FALSE
    /\ pending = {}
    /\ fetches = 0
    /\ lastId = 0
    /\ uploads = 0

\* .order(...): the stored as a records, newest first.
RECURSIVE Ordered(_)
Ordered(S) ==
    IF S = {} THEN <<>>
    ELSE LET top == CHOOSE r \in S : \A q \in S : q.id <= r.id
         IN  <<top>> \o Ordered(S \ {top})

\* The page is opened: its effect calls the fetch.
OpenPage(p) ==
    /\ page = "none"
    /\ page' = p
    /\ fetches' = 1
    /\ toasts' = <<>>
    /\ lastEvent' = "openPage"
    /\ UNCHANGED exceptRecords
    /\ UNCHANGED <<stored, records, form, isDialogOpen, editing, deleteConfirm, submitting,
                   uploadingFile, pending, lastId, uploads>>

\* The add button: setEditing(null) and the dialog opens with the defaults.
OpenDialog ==
    /\ page \in RecordPages
    /\ ~isDialogOpen
    /\ isDialogOpen' = TRUE
    /\ editing' = <<>>
    /\ form' = Form(<<>>, <<>>, TRUE, FALSE)
    /\ toasts' = <<>>
    /\ lastEvent' = "openDialog"
    /\ UNCHANGED exceptRecords
    /\ UNCHANGED <<page, stored, records, deleteConfirm, submitting, uploadingFile, pending,
                   fetches, lastId, uploads>>

\* handleEdit of a listed row: the dialog opens with the row's values.
HandleEdit(i) ==
    /\ page \in RecordPages
    /\ ~isDialogOpen
    /\ i \in 1..Len(records)
    /\ editing' = <<records[i]>>
    /\ isDialogOpen' = TRUE
    /\ form' = Form(records[i].name, records[i].second, TRUE, FALSE)
    /\ toasts' = <<>>
    /\ lastEvent' = "handleEdit"
    /\ UNCHANGED exceptRecords
    /\ UNCHANGED <<page, stored, records, deleteConfirm, submitting, uploadingFile, pending,
                   fetches, lastId, uploads>>

\* Cancel, or the dialog is dismissed.
CloseDialog ==
    /\ isDialogOpen
    /\ isDialogOpen' = FALSE
    /\ toasts' = <<>>
    /\ lastEvent' = "closeDialog"
    /\ UNCHANGED exceptRecords
    /\ UNCHANGED <<page, stored, records, form, editing, deleteConfirm, submitting, uploadingFile,
                   pending, fetches, lastId, uploads>>

\* The user fills in the form.
SetForm(f) ==
    /\ isDialogOpen
    /\ f \in Forms(page)
    /\ f # form
    /\ form' = f
    /\ toasts' = <<>>
    /\ lastEvent' = "setForm"
    /\ UNCHANGED exceptRecords
    /\ UNCHANGED <<page, stored, records, isDialogOpen, editing, deleteConfirm, submitting,
                   uploadingFile, pending, fetches, lastId, uploads>>

\* The checks of each handleSubmit that end it with toast.error before any request.
LearningRejects(f) == Blank(f.name) \/ f.second = <<>>
CodingRejects(f) == Blank(f.name) \/ f.second = <<>> \/ ~f.date
ApplicationRejects(f) == Blank(f.name) \/ Blank(f.second)
ResumeRejects(f) == Blank(f.name)

Rejects(p, f) ==
    IF p = "learning" THEN LearningRejects(f)
    ELSE IF p = "coding" THEN CodingRejects(f)
    ELSE IF p = "applications" THEN ApplicationRejects(f)
    ELSE ResumeRejects(f)

\* goalData / problemData / appData / resumeData, for the row the handler
\* closed over (editing) or a new one; file_url is editingResume?.file_url || null.
FormData(p, f, edited) ==
    Row(IF edited # <<>> THEN edited[1].id ELSE 0,
        Trim(f.name),
        IF p = "applications" THEN Trim(f.second) ELSE f.second,
        IF edited # <<>> THEN edited[1].file_url ELSE <<>>)

\* The form is submitted (the submit button is disabled while submitting,
\* on the Resumes page also while uploading): handleSubmit up to its first await.
HandleSubmit ==
    /\ page \in RecordPages
    /\ isDialogOpen
    /\ ~submitting
    /\ ~uploadingFile
    /\ IF Rejects(page, form)
       THEN /\ toasts' = <<"error">>
            /\ UNCHANGED <<submitting, uploadingFile, pending>>
       ELSE /\ lastId + Cardinality({r \in pending : r.kind \in {"upload", "insert"}}) < MaxRecords
            /\ toasts' = <<>>
            /\ submitting' = TRUE
            /\ IF page = "resumes" /\ form.file
               THEN /\ uploads < MaxUploads
                    /\ uploadingFile' = TRUE
                    /\ pending' = pending \cup
                                  {PageRequest("upload", FormData(page, form, editing))}
               ELSE /\ uploadingFile' = uploadingFile
                    /\ pending' = pending \cup
                                  {PageRequest(IF editing # <<>> THEN "update" ELSE "insert",
                                               FormData(page, form, editing))}
    /\ lastEvent' = "handleSubmit"
    /\ UNCHANGED exceptRecords
    /\ UNCHANGED <<page, stored, records, form, isDialogOpen, editing, deleteConfirm,
                   fetches, lastId, uploads>>

\* handleFileUpload succeeded: fileUrl is the public URL of the new object,
\* and handleSubmit goes on to the insert or update.
UploadOk(r) ==
    /\ r \in pending /\ r.kind = "upload"
    /\ uploads' = uploads + 1
    /\ uploadingFile' = FALSE
    /\ pending' = (pending \ {r}) \cup
                  {PageRequest(IF r.data.id # 0 THEN "update" ELSE "insert",
                               [r.data EXCEPT !.file_url = <<uploads + 1>>])}
    /\ toasts' = <<>>
    /\ lastEvent' = "handleFileUpload.ok"
    /\ UNCHANGED exceptRecords
    /\ UNCHANGED <<page, stored, records, form, isDialogOpen, editing, deleteConfirm,
                   submitting, fetches, lastId>>

\* handleFileUpload failed: toast.error, null is returned and fileUrl stays.
UploadFail(r) ==
    /\ r \in pending /\ r.kind = "upload"
    /\ uploadingFile' = FALSE
    /\ pending' = (pending \ {r}) \cup
                  {PageRequest(IF r.data.id # 0 THEN "update" ELSE "insert", r.data)}
    /\ toasts' = <<"error">>
    /\ lastEvent' = "handleFileUpload.error"
    /\ UNCHANGED exceptRecords
    /\ UNCHANGED <<page, stored, records, form, isDialogOpen, editing, deleteConfirm,
                   submitting, fetches, lastId, uploads>>

\* The insert or update succeeded: toast.success, the fetch, the dialog closes.
SaveOk(r) ==
    /\ r \in pending /\ r.kind \in {"insert", "update"}
    /\ IF r.kind = "insert"
       THEN /\ lastId' = lastId + 1
            /\ stored' = stored \cup {[r.data EXCEPT !.id = lastId + 1]}
       ELSE /\ lastId' = lastId
            /\ stored' = {IF q.id = r.data.id THEN r.data ELSE q : q \in stored}
    /\ pending' = pending \ {r}
    /\ fetches' = Min(fetches + 1, MaxFetches)
    /\ isDialogOpen' = FALSE
    /\ editing' = <<>>
    /\ submitting' = FALSE
    /\ toasts' = <<"success">>
    /\ lastEvent' = "handleSubmit.ok"
    /\ UNCHANGED exceptRecords
    /\ UNCHANGED <<page, records, form, deleteConfirm, uploadingFile, uploads>>

\* The insert or update failed: toast.error.
SaveFail(r) ==
    /\ r \in pending /\ r.kind \in {"insert", "update"}
    /\ pending' = pending \ {r}
    /\ submitting' = FALSE
    /\ toasts' = <<"error">>
    /\ lastEvent' = "handleSubmit.error"
    /\ UNCHANGED exceptRecords
    /\ UNCHANGED <<page, stored, records, form, isDialogOpen, editing, deleteConfirm,
                   uploadingFile, fetches, lastId, uploads>>

\* The delete button of a listed row: the confirmation opens.
AskDelete(i) ==
    /\ page \in RecordPages
    /\ i \in 1..Len(records)
    /\ deleteConfirm = <<>>
    /\ deleteConfirm' = <<records[i].id>>
    /\ toasts' = <<>>
    /\ lastEvent' = "askDelete"
    /\ UNCHANGED exceptRecords
    /\ UNCHANGED <<page, stored, records, form, isDialogOpen, editing, submitting,
                   uploadingFile, pending, fetches, lastId, uploads>>

\* The confirmation is given: handleDelete up to its await.
HandleDelete ==
    /\ deleteConfirm # <<>>
    /\ pending' = pending \cup {PageRequest("delete", Row(deleteConfirm[1], <<>>, <<>>, <<>>))}
    /\ toasts' = <<>>
    /\ lastEvent' = "handleDelete"
    /\ UNCHANGED exceptRecords
    /\ UNCHANGED <<page, stored, records, form, isDialogOpen, editing, deleteConfirm,
                   submitting, uploadingFile, fetches, lastId, uploads>>

\* The delete succeeded: toast.success, the fetch; finally the confirmation closes.
DeleteOk(r) ==
    /\ r \in pending /\ r.kind = "delete"
    /\ stored' = {q \in stored : q.id # r.data.id}
    /\ pending' = pending \ {r}
    /\ fetches' = Min(fetches + 1, MaxFetches)
    /\ deleteConfirm' = <<>>
    /\ toasts' = <<"success">>
    /\ lastEvent' = "handleDelete.ok"
    /\ UNCHANGED exceptRecords
    /\ UNCHANGED <<page, records, form, isDialogOpen, editing, submitting, uploadingFile,
                   lastId, uploads>>

\* The delete failed: toast.error; finally the confirmation closes.
DeleteFail(r) ==
    /\ r \in pending /\ r.kind = "delete"
    /\ pending' = pending \ {r}
    /\ deleteConfirm' = <<>>
    /\ toasts' = <<"error">>
    /\ lastEvent' = "handleDelete.error"
    /\ UNCHANGED exceptRecords
    /\ UNCHANGED <<page, stored, records, form, isDialogOpen, editing, submitting,
                   uploadingFile, fetches, lastId, uploads>>

\* The fetch answered with the rows.
FetchRecordsOk ==
    /\ fetches > 0
    /\ fetches' = fetches - 1
    /\ records' = Ordered(stored)
    /\ toasts' = <<>>
    /\ lastEvent' = "fetch.ok"
    /\ UNCHANGED exceptRecords
    /\ UNCHANGED <<page, stored, form, isDialogOpen, editing, deleteConfirm, submitting,
                   uploadingFile, pending, lastId, uploads>>

\* The fetch failed: toast.error.
FetchRecordsFail ==
    /\ fetches > 0
    /\ fetches' = fetches - 1
    /\ toasts' = <<"error">>
    /\ lastEvent' = "fetch.error"
    /\ UNCHANGED exceptRecords
    /\ UNCHANGED <<page, stored, records, form, isDialogOpen, editing, deleteConfirm,
                   submitting, uploadingFile, pending, lastId, uploads>>

NextRecords ==
    \/ \E p \in RecordPages : OpenPage(p)
    \/ OpenDialog
    \/ \E i \in 1..MaxRecords : HandleEdit(i)
    \/ CloseDialog
    \/ \E f \in Forms(page) : SetForm(f)
    \/ HandleSubmit
    \/ \E r \in pending : UploadOk(r)
    \/ \E r \in pending : UploadFail(r)
    \/ \E r \in pending : SaveOk(r)
    \/ \E r \in pending : SaveFail(r)
    \/ \E i \in 1..MaxRecords : AskDelete(i)
    \/ HandleDelete
    \/ \E r \in pending : DeleteOk(r)
    \/ \E r \in pending : DeleteFail(r)
    \/ FetchRecordsOk
    \/ FetchRecordsFail

(***************************************************************************)
(* The list filters of Applications and CodingPractice.                    *)
(***************************************************************************)
\* Some of the values of the two selectors of each page; "all" is the
\* selectors' initial value and never the value of a row.
StatusValues == {"applied", "rejected"}
TypeValues == {"internship", "full_time"}
PlatformValues == {"LeetCode", "Codeforces"}
DifficultyValues == {"easy", "hard"}

Application(status, job_type) == [status |-> status, job_type |-> job_type]
Problem(platform, difficulty) == [platform |-> platform, difficulty |-> difficulty]

Lists(S) == UNION {[1..n -> S] : n \in 0..MaxListed}

\* A variant of the callback that keeps a row matching either selector.
AppKeptByEither(app, status, type) ==
    \/ status = "all" \/ app.status = status
    \/ type = "all" \/ app.job_type = type

\* The callback of applications.filter: its two early returns, then true.
AppKept(app, status, type) ==
    IF status # "all" /\ app.status # status THEN FALSE
    ELSE IF type # "all" /\ app.job_type # type THEN FALSE
    ELSE TRUE

\* The callback of problems.filter.
ProblemKept(problem, platform, difficulty) ==
    IF platform # "all" /\ problem.platform # platform THEN FALSE
    ELSE IF difficulty # "all" /\ problem.difficulty # difficulty THEN FALSE
    ELSE TRUE

\* Array.prototype.filter: the kept elements, in order.
RECURSIVE FilterApps(_, _, _)
FilterApps(list, status, type) ==
    IF list = <<>> THEN <<>>
    ELSE (IF AppKept(Head(list), status, type) THEN <<Head(list)>> ELSE <<>>)
         \o FilterApps(Tail(list), status, type)

RECURSIVE FilterProblems(_, _, _)
FilterProblems(list, platform, difficulty) ==
    IF list = <<>> THEN <<>>
    ELSE (IF ProblemKept(Head(list), platform, difficulty) THEN <<Head(list)>> ELSE <<>>)
         \o FilterProblems(Tail(list), platform, difficulty)

\* The lists the two pages render.
filteredApps == FilterApps(applications, filterStatus, filterType)
filteredProblems == FilterProblems(problems, filterPlatform, filterDifficulty)

InitFilters ==
    /\ filterPage = "none"
    /\ applications = <<>>
    /\ filterStatus = "all"
    /\ filterType = "all"
    /\ problems = <<>>
    /\ filterPlatform = "all"
    /\ filterDifficulty = "all"

\* The route changes: the page left is unmounted and page p is mounted with
\* the initial values of its useState calls.
OpenFilterPage(p) ==
    /\ p # filterPage
    /\ filterPage' = p
    /\ applications' = <<>>
    /\ filterStatus' = "all"
    /\ filterType' = "all"
    /\ problems' = <<>>
    /\ filterPlatform' = "all"
    /\ filterDifficulty' = "all"
    /\ toasts' = <<>>
    /\ lastEvent' = "openPage"
    /\ UNCHANGED exceptFilters

\* fetchApplications succeeded with these rows.
FetchApplications(list) ==
    /\ filterPage = "applications"
    /\ applications' = list
    /\ toasts' = <<>>
    /\ lastEvent' = "fetchApplications"
    /\ UNCHANGED exceptFilters
    /\ UNCHANGED <<filterPage, filterStatus, filterType, problems, filterPlatform,
                   filterDifficulty>>

SetFilterStatus(v) ==
    /\ filterPage = "applications"
    /\ filterStatus' = v
    /\ toasts' = <<>>
    /\ lastEvent' = "setFilterStatus"
    /\ UNCHANGED exceptFilters
    /\ UNCHANGED <<filterPage, applications, filterType, problems, filterPlatform,
                   filterDifficulty>>

SetFilterType(v) ==
    /\ filterPage = "applications"
    /\ filterType' = v
    /\ toasts' = <<>>
    /\ lastEvent' = "setFilterType"
    /\ UNCHANGED exceptFilters
    /\ UNCHANGED <<filterPage, applications, filterStatus, problems, filterPlatform,
                   filterDifficulty>>

\* fetchProblems succeeded with these rows.
FetchProblemRows(list) ==
    /\ filterPage = "coding"
    /\ problems' = list
    /\ toasts' = <<>>
    /\ lastEvent' = "fetchProblems"
    /\ UNCHANGED exceptFilters
    /\ UNCHANGED <<filterPage, applications, filterStatus, filterType, filterPlatform,
                   filterDifficulty>>

SetFilterPlatform(v) ==
    /\ filterPage = "coding"
    /\ filterPlatform' = v
    /\ toasts' = <<>>
    /\ lastEvent' = "setFilterPlatform"
    /\ UNCHANGED exceptFilters
    /\ UNCHANGED <<filterPage, applications, filterStatus, filterType, problems,
                   filterDifficulty>>

SetFilterDifficulty(v) ==
    /\ filterPage = "coding"
    /\ filterDifficulty' = v
    /\ toasts' = <<>>
    /\ lastEvent' = "setFilterDifficulty"
    /\ UNCHANGED exceptFilters
    /\ UNCHANGED <<filterPage, applications, filterStatus, filterType, problems,
                   filterPlatform>>

NextFilters ==
    \/ \E p \in {"applications", "coding"} : OpenFilterPage(p)
    \/ \E list \in Lists({Application(st, t) : st \in StatusValues, t \in TypeValues}) :
            FetchApplications(list)
    \/ \E v \in StatusValues \cup {"all"} : SetFilterStatus(v)
    \/ \E v \in TypeValues \cup {"all"} : SetFilterType(v)
    \/ \E list \in Lists({Problem(p, d) : p \in PlatformValues, d \in DifficultyValues}) :
            FetchProblemRows(list)
    \/ \E v \in PlatformValues \cup {"all"} : SetFilterPlatform(v)
    \/ \E v \in DifficultyValues \cup {"all"} : SetFilterDifficulty(v)

(***************************************************************************)
(* The tables and their row-level policies (the two migrations).           *)
(***************************************************************************)
Users == {"A", "B"}
Tables == {"profiles", "learning_goals", "coding_problems", "resumes", "applications",
           "roadmap", "reminders", "mock_tests", "mock_interviews"}
Commands == {"SELECT", "INSERT", "UPDATE", "DELETE"}

\* A row: its owner column and the rest of its columns.
TableRow(user_id, data) == [user_id |-> user_id, data |-> data]
TableRows == {TableRow(u, d) : u \in Users, d \in {0, 1}}

\* The commands that have a CREATE POLICY: profiles and roadmap have none FOR DELETE.
PolicyCommands(t) ==
    IF t \in {"profiles", "roadmap"} THEN {"SELECT", "INSERT", "UPDATE"} ELSE Commands

\* CREATE POLICY ... ON t FOR command: INSERT policies carry WITH CHECK,
\* the others USING, all with the expression auth.uid() = user_id.
Policy(t, command) ==
    [table |-> t, command |-> command,
     using |-> IF command = "INSERT" THEN <<>> ELSE <<"auth.uid() = user_id">>,
     check |-> IF command = "INSERT" THEN <<"auth.uid() = user_id">> ELSE <<>>]

Policies == UNION {{Policy(t, command) : command \in PolicyCommands(t)} : t \in Tables}

Eval(expr, uid, row) ==
    IF expr = "auth.uid() = user_id" THEN uid = row.user_id ELSE expr = "true"

\* A variant in which an UPDATE policy without WITH CHECK checks nothing.
CheckOfNothing(p) == IF p.check # <<>> THEN p.check[1] ELSE "true"

\* The expression new rows are checked against: WITH CHECK, and for a
\* policy that has none its USING expression.
CheckOf(p) == IF p.check # <<>> THEN p.check[1] ELSE p.using[1]

\* Row-level security is enabled on every table: a row is visible to a command
\* when some policy of the table for that command has a USING expression true of it.
Using(t, command, uid, row) ==
    \E p \in Policies :
        /\ p.table = t /\ p.command = command
        /\ p.using # <<>>
        /\ Eval(p.using[1], uid, row)

WithCheck(t, command, uid, row) ==
    \E p \in Policies :
        /\ p.table = t /\ p.command = command
        /\ Eval(CheckOf(p), uid, row)

\* The filter the client sends: none, or .eq('user_id', u).
Filters == {"none"} \cup Users
Matches(f, row) == f = "none" \/ row.user_id = f

TableRequest(uid, command) == [uid |-> uid, command |-> command]

RowCount == Cardinality({tr \in Tables \X TableRows : tr[2] \in db[tr[1]]})

InitPolicies ==
    /\ db = [t \in Tables |-> {}]
    /\ request = TableRequest("A", "SELECT")
    /\ result = {}

SelectRows(uid, t, f) ==
    /\ request' = TableRequest(uid, "SELECT")
    /\ result' = {row \in db[t] : Matches(f, row) /\ Using(t, "SELECT", uid, row)}
    /\ db' = db
    /\ toasts' = <<>>
    /\ lastEvent' = "select"
    /\ UNCHANGED exceptPolicies

InsertRow(uid, t, row) ==
    /\ RowCount < MaxRows
    /\ request' = TableRequest(uid, "INSERT")
    /\ result' = {}
    /\ IF WithCheck(t, "INSERT", uid, row)
       THEN /\ db' = [db EXCEPT ![t] = @ \cup {row}]
            /\ lastEvent' = "insert"
       ELSE /\ db' = db
            /\ lastEvent' = "insert.denied"
    /\ toasts' = <<>>
    /\ UNCHANGED exceptPolicies

\* UPDATE t SET user_id = owner, data = data WHERE the filter: the rows
\* the command may see and change, then the check of the new rows.
\* "update.hidden" and "delete.hidden": the filter matched rows and the
\* policies left none of them to the command.
UpdateRows(uid, t, f, owner, data) ==
    LET targets == {row \in db[t] : /\ Matches(f, row)
                                    /\ Using(t, "SELECT", uid, row)
                                    /\ Using(t, "UPDATE", uid, row)}
        hidden == {row \in db[t] : Matches(f, row)} \ targets
    IN  /\ request' = TableRequest(uid, "UPDATE")
        /\ result' = {}
        /\ IF targets # {} /\ ~WithCheck(t, "UPDATE", uid, TableRow(owner, data))
           THEN /\ db' = db
                /\ lastEvent' = "update.denied"
           ELSE /\ db' = [db EXCEPT ![t] =
                            (@ \ targets) \cup
                            (IF targets = {} THEN {} ELSE {TableRow(owner, data)})]
                /\ lastEvent' = IF targets = {} /\ hidden # {} THEN "update.hidden"
                                ELSE "update"
        /\ toasts' = <<>>
        /\ UNCHANGED exceptPolicies

DeleteRows(uid, t, f) ==
    LET targets == {row \in db[t] : /\ Matches(f, row)
                                    /\ Using(t, "SELECT", uid, row)
                                    /\ Using(t, "DELETE", uid, row)}
        hidden == {row \in db[t] : Matches(f, row)} \ targets
    IN  /\ request' = TableRequest(uid, "DELETE")
        /\ result' = {}
        /\ db' = [db EXCEPT ![t] = @ \ targets]
        /\ toasts' = <<>>
        /\ lastEvent' = IF targets = {} /\ hidden # {} THEN "delete.hidden" ELSE "delete"
        /\ UNCHANGED exceptPolicies

NextPolicies ==
    \/ \E uid \in Users, t \in Tables, f \in Filters : SelectRows(uid, t, f)
    \/ \E uid \in Users, t \in Tables, row \in TableRows : InsertRow(uid, t, row)
    \/ \E uid \in Users, t \in Tables, f \in Filters, owner \in Users, data \in {0, 1} :
            UpdateRows(uid, t, f, owner, data)
    \/ \E uid \in Users, t \in Tables, f \in Filters : DeleteRows(uid, t, f)

(***************************************************************************)
(* RoadmapPage: fetchRoadmap and saveRoadmap, and table roadmap.           *)
(***************************************************************************)
\* The open pages: two of user A (two tabs) and one of user B.
Clients == {1, 2, 3}
UserOf(client) == IF client = 3 THEN "B" ELSE "A"

\* targetRole || null
TargetRoles == {<<>>, <<"r">>}

RoadmapRow(id, user_id, target_role) ==
    [id |-> id, user_id |-> user_id, target_role |-> target_role]

\* A variant without the constraint.
NoUserIdKey(table, row) == TRUE

\* CONSTRAINT roadmap_user_id_key UNIQUE (user_id): the row may be added to
\* the table.
RoadmapUserIdKey(table, row) == \A x \in table : x.user_id # row.user_id

SaveRequest(client, kind, id, target_role) ==
    [client |-> client, kind |-> kind, id |-> id, target_role |-> target_role]

InitRoadmap ==
    /\ roadmapTable = {}
    /\ roadmap = [client \in Clients |-> <<>>]
    /\ saving = [client \in Clients |-> FALSE]
    /\ roadmapRequests = {}
    /\ roadmapFetches = [client \in Clients |-> 1]

\* loading: true from mount and from the start of fetchRoadmap until that
\* fetch has answered; the page then shows the loader in place of the form.
RoadmapLoading(client) == roadmapFetches[client] > 0

\* Click on Save Roadmap (rendered when not loading, disabled while saving):
\* saveRoadmap up to its await; an update of the row in the roadmap state,
\* or an insert when that is null.
SaveRoadmap(client, target_role) ==
    /\ ~RoadmapLoading(client)
    /\ ~saving[client]
    /\ saving' = [saving EXCEPT ![client] = TRUE]
    /\ roadmapRequests' = roadmapRequests \cup
            {IF roadmap[client] # <<>>
             THEN SaveRequest(client, "update", roadmap[client][1].id, target_role)
             ELSE SaveRequest(client, "insert", 0, target_role)}
    /\ toasts' = <<>>
    /\ lastEvent' = "saveRoadmap"
    /\ UNCHANGED exceptRoadmap
    /\ UNCHANGED <<roadmapTable, roadmap, roadmapFetches>>

\* The save succeeded: toast.success and fetchRoadmap(); finally setSaving(false).
SaveRoadmapOk(r) ==
    /\ r \in roadmapRequests
    /\ IF r.kind = "insert"
       THEN LET row == RoadmapRow(Cardinality(roadmapTable) + 1, UserOf(r.client),
                                  r.target_role)
            IN  /\ RoadmapUserIdKey(roadmapTable, row)
                /\ Cardinality(roadmapTable) < MaxRoadmaps
                /\ roadmapTable' = roadmapTable \cup {row}
       ELSE roadmapTable' = {IF x.id = r.id THEN [x EXCEPT !.target_role = r.target_role]
                             ELSE x : x \in roadmapTable}
    /\ roadmapRequests' = roadmapRequests \ {r}
    /\ saving' = [saving EXCEPT ![r.client] = FALSE]
    /\ roadmapFetches' = [roadmapFetches EXCEPT ![r.client] = Min(@ + 1, MaxFetches)]
    /\ toasts' = <<"success">>
    /\ lastEvent' = "saveRoadmap.ok"
    /\ UNCHANGED exceptRoadmap
    /\ UNCHANGED roadmap

\* The save failed (for an insert also: the constraint rejected the row):
\* toast.error; finally setSaving(false).
SaveRoadmapFail(r) ==
    /\ r \in roadmapRequests
    /\ roadmapRequests' = roadmapRequests \ {r}
    /\ saving' = [saving EXCEPT ![r.client] = FALSE]
    /\ toasts' = <<"error">>
    /\ lastEvent' = IF r.kind = "insert"
                       /\ ~RoadmapUserIdKey(roadmapTable,
                                            RoadmapRow(0, UserOf(r.client), r.target_role))
                    THEN "saveRoadmap.duplicate" ELSE "saveRoadmap.error"
    /\ UNCHANGED exceptRoadmap
    /\ UNCHANGED <<roadmapTable, roadmap, roadmapFetches>>

\* The select of fetchRoadmap answered: .single() gives the row when the
\* user has exactly one, and otherwise error PGRST116 and no data, which
\* leaves the state as it is.
FetchRoadmapOk(client) ==
    LET own == {x \in roadmapTable : x.user_id = UserOf(client)}
    IN  /\ roadmapFetches[client] > 0
        /\ roadmapFetches' = [roadmapFetches EXCEPT ![client] = @ - 1]
        /\ roadmap' = IF Cardinality(own) = 1
                      THEN [roadmap EXCEPT ![client] = <<CHOOSE x \in own : TRUE>>]
                      ELSE roadmap
        /\ toasts' = <<>>
        /\ lastEvent' = "fetchRoadmap.ok"
        /\ UNCHANGED exceptRoadmap
        /\ UNCHANGED <<roadmapTable, saving, roadmapRequests>>

\* The select failed: toast.error.
FetchRoadmapFail(client) ==
    /\ roadmapFetches[client] > 0
    /\ roadmapFetches' = [roadmapFetches EXCEPT ![client] = @ - 1]
    /\ toasts' = <<"error">>
    /\ lastEvent' = "fetchRoadmap.error"
    /\ UNCHANGED exceptRoadmap
    /\ UNCHANGED <<roadmapTable, roadmap, saving, roadmapRequests>>

NextRoadmap ==
    \/ \E client \in Clients, target_role \in TargetRoles : SaveRoadmap(client, target_role)
    \/ \E r \in roadmapRequests : SaveRoadmapOk(r)
    \/ \E r \in roadmapRequests : SaveRoadmapFail(r)
    \/ \E client \in Clients : FetchRoadmapOk(client)
    \/ \E client \in Clients : FetchRoadmapFail(client)

(***************************************************************************)
(* ResumeAnalyzer: parsing the PDF and analysing the text.                 *)
(***************************************************************************)
\* What the parse and analyse functions answer: data, data.error, or an error.
Outcomes == {"ok", "refused", "error"}

AnalyzerCall(handler, stage) == [handler |-> handler, stage |-> stage]

InitAnalyzer ==
    /\ resumeText = <<>>
    /\ selectedFile = FALSE
    /\ inputMethod = "upload"
    /\ parsing = FALSE
    /\ analyzing = FALSE
    /\ analyzerCalls = {}

\* const canAnalyze = inputMethod === 'upload' ? !!selectedFile : !!resumeText.trim()
canAnalyze == IF inputMethod = "upload" THEN selectedFile ELSE Trim(resumeText) # <<>>

\* The Tabs: setInputMethod.
SetInputMethod(method) ==
    /\ inputMethod # method
    /\ inputMethod' = method
    /\ toasts' = <<>>
    /\ lastEvent' = "ui"
    /\ UNCHANGED exceptAnalyzer
    /\ UNCHANGED <<resumeText, selectedFile, parsing, analyzing, analyzerCalls>>

\* handleFileSelect with a PDF (chosen = TRUE) and the Remove button (FALSE):
\* both set the file and clear the text.
SetSelectedFile(chosen) ==
    /\ selectedFile # chosen
    /\ selectedFile' = chosen
    /\ resumeText' = <<>>
    /\ toasts' = <<>>
    /\ lastEvent' = "ui"
    /\ UNCHANGED exceptAnalyzer
    /\ UNCHANGED <<inputMethod, parsing, analyzing, analyzerCalls>>

\* The textarea of the paste tab: setResumeText.
SetResumeText(text) ==
    /\ inputMethod = "paste"
    /\ resumeText # text
    /\ resumeText' = text
    /\ toasts' = <<>>
    /\ lastEvent' = "ui"
    /\ UNCHANGED exceptAnalyzer
    /\ UNCHANGED <<selectedFile, inputMethod, parsing, analyzing, analyzerCalls>>

\* Click on Analyze Resume (disabled while analyzing, parsing or !canAnalyze):
\* handleAnalyzeWithParse up to its first await. With a file and no text it
\* parses first; otherwise it is handleAnalyze, which has the text (a blank
\* text with no file to parse is rejected with a toast before any flag is set).
HandleAnalyzeWithParse ==
    /\ ~(analyzing \/ parsing \/ ~canAnalyze)
    /\ IF inputMethod = "upload" /\ selectedFile /\ Trim(resumeText) = <<>>
       THEN /\ parsing' = TRUE
            /\ analyzing' = analyzing
            /\ analyzerCalls' = analyzerCalls
                                  \cup {AnalyzerCall("handleAnalyzeWithParse", "parse")}
            /\ toasts' = <<>>
       ELSE IF Trim(resumeText) = <<>>
       THEN /\ toasts' = <<"error">>
            /\ UNCHANGED <<parsing, analyzing, analyzerCalls>>
       ELSE /\ analyzing' = TRUE
            /\ parsing' = parsing
            /\ analyzerCalls' = analyzerCalls \cup {AnalyzerCall("handleAnalyze", "analyze")}
            /\ toasts' = <<>>
    /\ lastEvent' = "handleAnalyzeWithParse"
    /\ UNCHANGED exceptAnalyzer
    /\ UNCHANGED <<resumeText, selectedFile, inputMethod>>

\* parse-resume-pdf answered. An error is thrown to the catch and data.error
\* returns after setParsing(false); both pass the finally, which clears both
\* flags. With the text: setResumeText, setParsing(false), setAnalyzing(true)
\* and the analyze-resume call.
ParseAnswered(c, outcome) ==
    /\ c \in analyzerCalls /\ c.stage = "parse"
    /\ IF outcome = "ok"
       THEN /\ resumeText' = <<"a">>
            /\ parsing' = FALSE
            /\ analyzing' = TRUE
            /\ analyzerCalls' = (analyzerCalls \ {c})
                                  \cup {AnalyzerCall(c.handler, "analyze")}
            /\ toasts' = <<>>
       ELSE /\ resumeText' = resumeText
            /\ parsing' = FALSE
            /\ analyzing' = FALSE
            /\ analyzerCalls' = analyzerCalls \ {c}
            /\ toasts' = <<"error">>
    /\ lastEvent' = "parse." \o outcome
    /\ UNCHANGED exceptAnalyzer
    /\ UNCHANGED <<selectedFile, inputMethod>>

\* A variant of the continuation below whose return on data.error leaves
\* without passing the finally block.
AnalyzeAnsweredReturnsEarly(c, outcome) ==
    /\ c \in analyzerCalls /\ c.stage = "analyze"
    /\ analyzerCalls' = analyzerCalls \ {c}
    /\ analyzing' = (outcome = "refused")
    /\ parsing' = IF c.handler = "handleAnalyzeWithParse" /\ outcome # "refused"
                  THEN FALSE ELSE parsing
    /\ toasts' = IF outcome = "ok" THEN <<"success">> ELSE <<"error">>
    /\ lastEvent' = "analyze." \o outcome
    /\ UNCHANGED exceptAnalyzer
    /\ UNCHANGED <<resumeText, selectedFile, inputMethod>>

\* analyze-resume answered: setAnalysis and toast.success, or toast.error on
\* data.error and in the catch; the finally block of handleAnalyze clears
\* analyzing, that of handleAnalyzeWithParse clears parsing and analyzing.
AnalyzeAnswered(c, outcome) ==
    /\ c \in analyzerCalls /\ c.stage = "analyze"
    /\ analyzerCalls' = analyzerCalls \ {c}
    /\ analyzing' = FALSE
    /\ parsing' = IF c.handler = "handleAnalyzeWithParse" THEN FALSE ELSE parsing
    /\ toasts' = IF outcome = "ok" THEN <<"success">> ELSE <<"error">>
    /\ lastEvent' = "analyze." \o outcome
    /\ UNCHANGED exceptAnalyzer
    /\ UNCHANGED <<resumeText, selectedFile, inputMethod>>

NextAnalyzer ==
    \/ \E method \in {"paste", "upload"} : SetInputMethod(method)
    \/ \E chosen \in BOOLEAN : SetSelectedFile(chosen)
    \/ \E text \in InputTexts : SetResumeText(text)
    \/ HandleAnalyzeWithParse
    \/ \E c \in analyzerCalls : \E outcome \in Outcomes : ParseAnswered(c, outcome)
    \/ \E c \in analyzerCalls : \E outcome \in Outcomes : AnalyzeAnswered(c, outcome)

(***************************************************************************)
(* App: the routes, and the sign-in form of the Auth page.                 *)
(***************************************************************************)
ProtectedPaths == {"/dashboard", "/learning", "/coding", "/mock-tests", "/mock-interviews",
                   "/resumes", "/applications", "/roadmap", "/reminders"}

\* The paths a visit may name; "/other" stands for any path matched by "*".
Paths == ProtectedPaths \cup {"/", "/auth", "/other"}

\* What useAuth may give as user.
AuthUsers == {<<>>, <<"A">>}

\* An element: something shown, or <Navigate to=... replace />.
Shows(what) == [kind |-> "show", what |-> what]
NavigateTo(path) == [kind |-> "navigate", what |-> path]

\* A variant of the guard below that lets everybody in once loading is over.
ProtectedRouteOpen(user, isLoading, children) ==
    IF isLoading THEN Shows("spinner") ELSE Shows(children)

\* function ProtectedRoute({ children })
ProtectedRoute(user, isLoading, children) ==
    IF isLoading THEN Shows("spinner")
    ELSE IF user = <<>> THEN NavigateTo("/auth")
    ELSE Shows(children)

\* function AppRoutes(): the element for a path.
AppRoutes(path, user, isLoading) ==
    IF isLoading THEN Shows("spinner")
    ELSE IF path = "/" THEN (IF user # <<>> THEN NavigateTo("/dashboard") ELSE NavigateTo("/auth"))
    ELSE IF path = "/auth" THEN (IF user # <<>> THEN NavigateTo("/dashboard") ELSE Shows("auth"))
    ELSE IF path \in ProtectedPaths THEN ProtectedRoute(user, isLoading, path)
    ELSE Shows("notfound")

\* Rendering until no Navigate is left: the path reached and what is shown there.
RECURSIVE Settle(_, _, _)
Settle(path, user, isLoading) ==
    LET element == AppRoutes(path, user, isLoading)
    IN  IF element.kind = "navigate" THEN Settle(element.what, user, isLoading)
        ELSE [location |-> path, rendered |-> element.what]

\* The application is opened at "/" while the session is being restored.
InitRoutes ==
    /\ authUser = <<>>
    /\ authLoading = TRUE
    /\ location = "/"
    /\ rendered = "spinner"
    /\ formLoading = FALSE
    /\ signIns = 0

\* The state of the Auth page lives as long as the page is shown.
FormLoadingAt(shown, value) == IF shown = "auth" THEN value ELSE FALSE

\* A link, or a path typed into the address bar.
Visit(path) ==
    LET reached == Settle(path, authUser, authLoading)
    IN  /\ location' = reached.location
        /\ rendered' = reached.rendered
        /\ formLoading' = FormLoadingAt(reached.rendered, IF rendered = "auth" THEN formLoading ELSE FALSE)
        /\ toasts' = <<>>
        /\ lastEvent' = "visit " \o path
        /\ UNCHANGED exceptRoutes
        /\ UNCHANGED <<authUser, authLoading, signIns>>

\* useAuth gives a new user or loading value; the routes render again.
AuthChanged(user, isLoading) ==
    LET reached == Settle(location, user, isLoading)
    IN  /\ <<user, isLoading>> # <<authUser, authLoading>>
        /\ authUser' = user
        /\ authLoading' = isLoading
        /\ location' = reached.location
        /\ rendered' = reached.rendered
        /\ formLoading' = FormLoadingAt(reached.rendered, IF rendered = "auth" THEN formLoading ELSE FALSE)
        /\ toasts' = <<>>
        /\ lastEvent' = "auth"
        /\ UNCHANGED exceptRoutes
        /\ UNCHANGED signIns

\* The sign-in form is submitted (the button is disabled while loading):
\* handleSignIn up to its await. An email or password the schemas reject:
\* toast.error, setLoading(false), return.
HandleSignIn(valid) ==
    /\ rendered = "auth"
    /\ ~formLoading
    /\ signIns < MaxInFlight
    /\ IF valid
       THEN formLoading' = TRUE /\ signIns' = signIns + 1 /\ toasts' = <<>>
       ELSE formLoading' = FALSE /\ signIns' = signIns /\ toasts' = <<"error">>
    /\ lastEvent' = "handleSignIn"
    /\ UNCHANGED exceptRoutes
    /\ UNCHANGED <<authUser, authLoading, location, rendered>>

\* signIn answered with { error }: setLoading(false), then toast.error, or
\* toast.success and navigate('/dashboard').
SignInAnswered(ok) ==
    LET reached == IF ok THEN Settle("/dashboard", authUser, authLoading)
                   ELSE [location |-> location, rendered |-> rendered]
    IN  /\ signIns > 0
        /\ signIns' = signIns - 1
        /\ location' = reached.location
        /\ rendered' = reached.rendered
        /\ formLoading' = FALSE
        /\ toasts' = IF ok THEN <<"success">> ELSE <<"error">>
        /\ lastEvent' = IF ok THEN "handleSignIn.ok" ELSE "handleSignIn.error"
        /\ UNCHANGED exceptRoutes
        /\ UNCHANGED <<authUser, authLoading>>

NextRoutes ==
    \/ \E path \in Paths : Visit(path)
    \/ \E user \in AuthUsers, isLoading \in BOOLEAN : AuthChanged(user, isLoading)
    \/ \E valid \in BOOLEAN : HandleSignIn(valid)
    \/ \E ok \in BOOLEAN : SignInAnswered(ok)

(***************************************************************************)
(* RoadmapPage: the monthly preparation plan.                              *)
(***************************************************************************)
\* months.slice(0, 6), three of them.
Months == {"January", "February", "March"}

\* What a goal input may hold.
GoalTexts == {"", "g"}

InitGoals == monthlyGoals = <<>>

\* goals.filter((_, i) => i !== goalIndex), goalIndex counted from 0.
WithoutGoal(goals, goalIndex) ==
    [i \in 1..(Len(goals) - (IF goalIndex < Len(goals) THEN 1 ELSE 0)) |->
        IF i <= goalIndex THEN goals[i] ELSE goals[i + 1]]

\* The month buttons and Add goal: addMonthlyGoal.
AddMonthlyGoal(month) ==
    /\ \A i \in 1..Len(monthlyGoals) :
          monthlyGoals[i].month = month => Len(monthlyGoals[i].goals) < MaxGoals
    /\ monthlyGoals' =
          IF \E i \in 1..Len(monthlyGoals) : monthlyGoals[i].month = month
          THEN [i \in 1..Len(monthlyGoals) |->
                   IF monthlyGoals[i].month = month
                   THEN [monthlyGoals[i] EXCEPT !.goals = Append(@, "")]
                   ELSE monthlyGoals[i]]
          ELSE Append(monthlyGoals, [month |-> month, goals |-> <<"">>])
    /\ toasts' = <<>>
    /\ lastEvent' = "addMonthlyGoal " \o month
    /\ UNCHANGED exceptGoals

\* The input of a goal: updateGoal.
UpdateGoal(month, goalIndex, value) ==
    /\ \E i \in 1..Len(monthlyGoals) :
          monthlyGoals[i].month = month /\ goalIndex < Len(monthlyGoals[i].goals)
    /\ monthlyGoals' =
          [i \in 1..Len(monthlyGoals) |->
              IF monthlyGoals[i].month = month
              THEN [monthlyGoals[i] EXCEPT !.goals =
                       [j \in 1..Len(@) |-> IF j - 1 = goalIndex THEN value ELSE @[j]]]
              ELSE monthlyGoals[i]]
    /\ monthlyGoals' # monthlyGoals
    /\ toasts' = <<>>
    /\ lastEvent' = "updateGoal " \o month
    /\ UNCHANGED exceptGoals

\* A variant of removeGoal without the final filter on goals.length.
RemoveGoalKeepsMonth(month, goalIndex) ==
    /\ \E i \in 1..Len(monthlyGoals) :
          monthlyGoals[i].month = month /\ goalIndex < Len(monthlyGoals[i].goals)
    /\ monthlyGoals' =
          [i \in 1..Len(monthlyGoals) |->
              IF monthlyGoals[i].month = month
              THEN [monthlyGoals[i] EXCEPT !.goals = WithoutGoal(@, goalIndex)]
              ELSE monthlyGoals[i]]
    /\ toasts' = <<>>
    /\ lastEvent' = "removeGoal " \o month
    /\ UNCHANGED exceptGoals

\* The bin next to a goal: removeGoal.
RemoveGoal(month, goalIndex) ==
    /\ \E i \in 1..Len(monthlyGoals) :
          monthlyGoals[i].month = month /\ goalIndex < Len(monthlyGoals[i].goals)
    /\ monthlyGoals' =
          SelectSeq([i \in 1..Len(monthlyGoals) |->
                        IF monthlyGoals[i].month = month
                        THEN [monthlyGoals[i] EXCEPT !.goals = WithoutGoal(@, goalIndex)]
                        ELSE monthlyGoals[i]],
                    LAMBDA m : Len(m.goals) > 0)
    /\ toasts' = <<>>
    /\ lastEvent' = "removeGoal " \o month
    /\ UNCHANGED exceptGoals

NextGoals ==
    \/ \E month \in Months : AddMonthlyGoal(month)
    \/ \E month \in Months, goalIndex \in 0..(MaxGoals - 1), value \in GoalTexts :
          UpdateGoal(month, goalIndex, value)
    \/ \E month \in Months, goalIndex \in 0..(MaxGoals - 1) : RemoveGoal(month, goalIndex)

(***************************************************************************)
(* The initial state: every page as it is when first shown.                *)
(***************************************************************************)
Init ==
    /\ InitTest
    /\ InitStreak
    /\ InitInterview
    /\ InitEndpoints
    /\ InitRecords
    /\ InitFilters
    /\ InitPolicies
    /\ InitRoadmap
    /\ InitAnalyzer
    /\ InitRoutes
    /\ InitGoals
    /\ toasts = <<>>
    /\ lastEvent = "mount"

SpecStreak == Init /\ [][NextStreak]_vars

SpecAnalyzer == Init /\ [][NextAnalyzer]_vars

SpecGoals == Init /\ [][NextGoals]_vars

SpecRoutes == Init /\ [][NextRoutes]_vars

SpecEndpoints == Init /\ [][NextEndpoints]_vars

SpecRecords == Init /\ [][NextRecords]_vars

SpecFilters == Init /\ [][NextFilters]_vars

SpecPolicies == Init /\ [][NextPolicies]_vars

SpecRoadmap == Init /\ [][NextRoadmap]_vars

(***************************************************************************)
(* MockTests: the specification.                                           *)
(***************************************************************************)
UserTest ==
    \/ \E n \in 1..MaxQuestions : StartTest(n, MaxTests)
    \/ \E a \in OptionKeys : HandleAnswerSelect(a)
    \/ Previous
    \/ NextQuestion
    \/ \E i \in 0..(MaxQuestions - 1) : Navigate(i)
    \/ SubmitClick
    \/ ResetTest
    \/ ShowHistory
    \/ TakeATest

StartResponse ==
    \/ \E r \in requests : GenerateFail(r)
    \/ \E r \in requests, qs \in {<<>>} \cup {<<q>> : q \in QuestionLists} : GenerateOk(r, qs)
    \/ \E r \in requests : InsertFail(r)
    \/ \E r \in requests : InsertOk(r)
    \/ \E r \in requests : InsertOkNoQuestions(r)

SubmitSucceeds == \E r \in requests : SubmitOk(r)

SubmitFails == \E r \in requests : SubmitFail(r)

SubmitResponse ==
    \/ SubmitSucceeds
    \/ SubmitFails

HistoryResponse ==
    \/ FetchHistoryOk
    \/ FetchHistoryFail

Tick ==
    \/ TickDown
    \/ TickSubmit

NextTest ==
    \/ UserTest
    \/ StartResponse
    \/ SubmitResponse
    \/ HistoryResponse
    \/ Tick

SpecTest == Init /\ [][NextTest]_vars

(***************************************************************************)
(* MockInterviews: the specifications.                                     *)
(***************************************************************************)
\* The reply streams: every list of at most MaxEvents data events.
EventLists == SeqsUpTo(DataEvents, MaxEvents)

\* A reply of one data event.
ShortReplies == {<<<<"x">>>>}

UserInterview ==
    \/ StartInterview(MaxInterviews)
    \/ \E text \in InputTexts : SetInputMessage(text)
    \/ SendMessage(MaxAnswers)
    \/ EndInterview
    \/ ResetInterview
    \/ ShowInterviewHistory
    \/ StartFromHistory
    \/ \E i \in 1..HistoryLimit : ViewHistoryInterview(i)

\* The continuations of the session flow; each reply arrives as one chunk.
StartContinues ==
    \/ \E c \in calls : StartInsertFail(c)
    \/ \E c \in calls : StartInsertOk(c)
    \/ \E c \in calls : StartFetchFail(c)
    \/ \E c \in calls : \E events \in ShortReplies : StartFetchOk(c, events)
    \/ \E c \in calls : StartRead(c, Len(c.rest))
    \/ \E c \in calls : StartReadError(c)
    \/ \E c \in calls : StartReadDone(c)
    \/ \E c \in calls : \E ok \in BOOLEAN : StartUpdateDone(c, ok)

SendContinues ==
    \/ \E c \in calls : SendFetchFail(c)
    \/ \E c \in calls : \E events \in ShortReplies : SendFetchOk(c, events)
    \/ \E c \in calls : SendRead(c, Len(c.rest))
    \/ \E c \in calls : SendReadError(c)
    \/ \E c \in calls : SendReadDone(c)
    \/ \E c \in calls : \E ok \in BOOLEAN : SendUpdateDone(c, ok)

EndContinues ==
    \/ \E c \in calls : EndFetchFail(c)
    \/ \E c \in calls : \E feedbackData \in FeedbackObjects : EndFetchOk(c, feedbackData)
    \/ \E c \in calls : \E ok \in BOOLEAN : EndUpdateDone(c, ok)

InterviewHistoryResponse ==
    \/ FetchInterviewHistoryOk
    \/ FetchInterviewHistoryFail

NextInterview ==
    \/ UserInterview
    \/ StartContinues
    \/ SendContinues
    \/ EndContinues
    \/ InterviewHistoryResponse

SpecInterview == Init /\ [][NextInterview]_vars

\* The reader alone: an interview is started and answered, every call
\* succeeds, and each reply is any list of data events divided into read
\* chunks in any way.
UserAnswers ==
    \/ StartInterview(MaxInterviews)
    \/ \E text \in InputTexts : SetInputMessage(text)
    \/ SendMessage(MaxAnswers)

ReadsStart ==
    \/ \E c \in calls : StartInsertOk(c)
    \/ \E c \in calls : \E events \in EventLists : StartFetchOk(c, events)
    \/ \E c \in calls : \E k \in 1..Len(c.rest) : StartRead(c, k)
    \/ \E c \in calls : StartReadDone(c)
    \/ \E c \in calls : StartUpdateDone(c, TRUE)

ReadsSend ==
    \/ \E c \in calls : \E events \in EventLists : SendFetchOk(c, events)
    \/ \E c \in calls : \E k \in 1..Len(c.rest) : SendRead(c, k)
    \/ \E c \in calls : SendReadDone(c)
    \/ \E c \in calls : SendUpdateDone(c, TRUE)

NextStream ==
    \/ UserAnswers
    \/ ReadsStart
    \/ ReadsSend

SpecStream == Init /\ [][NextStream]_vars

\* The reader when the stream can end early: as above, and a stream may be
\* closed (done) or break (reader.read() rejects) at any point.
StreamEnds ==
    \/ \E c \in calls : StartReadError(c)
    \/ \E c \in calls : StartStreamEnded(c)
    \/ \E c \in calls : SendReadError(c)
    \/ \E c \in calls : SendStreamEnded(c)

NextDropped ==
    \/ UserAnswers
    \/ ReadsStart
    \/ ReadsSend
    \/ StreamEnds

SpecDropped == Init /\ [][NextDropped]_vars

\* The conversation with failures: one interview, answers sent again after
\* a failed send, every call succeeding or failing, one chunk per reply.
UserTalks ==
    \/ StartInterview(MaxInterviews)
    \/ \E text \in InputTexts : SetInputMessage(text)
    \/ SendMessage(MaxSends)

NextTurns ==
    \/ UserTalks
    \/ StartContinues
    \/ SendContinues

SpecTurns == Init /\ [][NextTurns]_vars

\* The pages that have busy flags, one at a time: the router shows one page,
\* and every other page is as at its mount.
NextBusy ==
    \/ InitInterview /\ InitRecords /\ InitRoadmap /\ InitAnalyzer /\ InitRoutes /\ NextTest
    \/ InitTest /\ InitRecords /\ InitRoadmap /\ InitAnalyzer /\ InitRoutes /\ NextInterview
    \/ InitTest /\ InitInterview /\ InitRoadmap /\ InitAnalyzer /\ InitRoutes /\ NextRecords
    \/ InitTest /\ InitInterview /\ InitRecords /\ InitAnalyzer /\ InitRoutes /\ NextRoadmap
    \/ InitTest /\ InitInterview /\ InitRecords /\ InitRoadmap /\ InitRoutes /\ NextAnalyzer
    \/ InitTest /\ InitInterview /\ InitRecords /\ InitRoadmap /\ InitAnalyzer /\ NextRoutes

SpecBusy == Init /\ [][NextBusy]_vars

(***************************************************************************)
(* Properties of the mock-test session.                                    *)
(***************************************************************************)
\* The number of questions whose selection is an option and equals correctAnswer.
CorrectSelections(questions, answers) ==
    Cardinality({i \in 1..Len(questions) :
                    i <= Len(answers) /\ answers[i] # "" /\ answers[i] = questions[i]})

ScoredRight(questions, w) ==
    LET N == Len(questions)
        K == CorrectSelections(questions, w.answers)
    IN  N >= 1 =>
            /\ w.correct_answers = K
            /\ w.score.den # 0
            /\ w.score.num * N = K * 100 * w.score.den
            /\ 0 <= w.score.num /\ w.score.num <= 100 * w.score.den

\* C1: every update handleSubmitTest sends for a test of N >= 1 questions, and
\* every completed row, carries correct_answers = K and score = (K / N) * 100,
\* K being the number of questions whose selection equals correctAnswer (an
\* unanswered question never counts), so 0 <= score <= 100.
C1_ScoreIsPercentageCorrect ==
    /\ \A r \in UpdatesInFlight : ScoredRight(r.test[1].questions, r.payload)
    /\ \A i \in 1..Len(mock_tests) :
          mock_tests[i].status = "completed" =>
              ScoredRight(mock_tests[i].questions, mock_tests[i])

\* A completed two-question test with one right, one unanswered question.
C1_Witness ==
    \E i \in 1..Len(mock_tests) :
        /\ mock_tests[i].status = "completed"
        /\ Len(mock_tests[i].questions) = 2
        /\ mock_tests[i].correct_answers = 1
        /\ \E j \in 1..2 : mock_tests[i].answers[j] = ""

\* C4: the test view is entered only from setup by a successful startTest, the
\* result view only from test by a successful handleSubmitTest, and a completed
\* row stays completed.
C4_OnlyForward ==
    [][/\ (view' = "test" /\ view # "test") =>
              (view = "setup" /\ lastEvent' = "startTest.ok")
       /\ (view' = "result" /\ view # "result") =>
              (view = "test" /\ lastEvent' = "handleSubmitTest.ok")
       /\ \A i \in 1..Len(mock_tests) :
              mock_tests[i].status = "completed" => mock_tests'[i].status = "completed"
      ]_vars

\* C5: an update is sent for a test only if none was sent for it before and
\* none is in flight: no test is submitted twice, by button and timer or otherwise.
C5_SubmittedOnce ==
    [][\A r \in requests' \ requests :
          r.kind = "update" =>
              (r.test[1].id \notin submitted /\ UpdatesInFlight = {})
      ]_vars

\* C8: a failed generate-test call, insert or update shows one error toast,
\* sends nothing more, and leaves view, currentTest, selectedAnswers,
\* currentQuestionIndex and timeRemaining (and the table) as they were.
C8_FailureLeavesSession ==
    [][lastEvent' \in {"startTest.generateError", "startTest.insertError",
                       "handleSubmitTest.error"} =>
          /\ toasts' = <<"error">>
          /\ requests' \subseteq requests
          /\ mock_tests' = mock_tests
          /\ UNCHANGED <<view, currentTest, selectedAnswers, currentQuestionIndex,
                         timeRemaining>>
      ]_vars

\* The timer's submit has failed: the test view stays, at time 0, with the answers kept.
C8_Witness ==
    /\ lastEvent = "handleSubmitTest.error"
    /\ toasts = <<"error">>
    /\ view = "test"
    /\ timeRemaining = 0
    /\ currentTest # <<>>
    /\ \E i \in 1..Len(selectedAnswers) : selectedAnswers[i] # ""

(***************************************************************************)
(* MockTests under fairness: the interval fires while it is installed and  *)
(* every request is answered. The user of this specification takes tests   *)
(* one after the other without answering (starting, moving to the last     *)
(* question, submitting, resetting), MaxTests + 1 of them, and every       *)
(* update succeeds.                                                        *)
(***************************************************************************)
UserRetake ==
    \/ \E n \in 1..MaxQuestions : StartTest(n, MaxTests + 1)
    \/ NextQuestion
    \/ SubmitClick
    \/ ResetTest

NextRetake ==
    \/ UserRetake
    \/ StartResponse
    \/ SubmitSucceeds
    \/ HistoryResponse
    \/ Tick

SpecTestFair ==
    /\ Init
    /\ [][NextRetake]_vars
    /\ WF_vars(Tick)
    /\ WF_vars(StartResponse)
    /\ WF_vars(SubmitSucceeds)
    /\ WF_vars(HistoryResponse)

\* C3: every tick of a running test takes exactly one second off timeRemaining
\* (the last one submits), and, updates succeeding, a test that has reached the
\* test view in the end is completed and shown in the result view.
C3_TimerCompletesTest ==
    /\ [][lastEvent' \in {"tick", "tick.handleSubmitTest"} =>
             /\ view = "test" /\ timeRemaining > 0
             /\ timeRemaining' = timeRemaining - 1
             /\ timeRemaining' = 0 =>
                    \E r \in requests' : r.kind = "update" /\ r.auto /\ r.test = currentTest
          ]_vars
    /\ \A id \in 1..(MaxTests + 1) :
          [](/\ view = "test"
             /\ currentTest # <<>>
             /\ currentTest[1].id = id
             => <>(/\ view = "result"
                   /\ currentTest # <<>>
                   /\ currentTest[1].id = id
                   /\ mock_tests[id].status = "completed"))

(***************************************************************************)
(* Properties of the practice streak.                                      *)
(***************************************************************************)
\* The number of consecutive days with an entry that end with day d.
RECURSIVE RunEnding(_, _)
RunEnding(days, d) == IF d \in days THEN 1 + RunEnding(days, d - 1) ELSE 0

\* The streak as stated: the run ending today, else the run ending yesterday, else 0.
StatedStreak(days, now) ==
    IF now \in days THEN RunEnding(days, now) ELSE RunEnding(days, now - 1)

\* C2: whenever fetchProblems or fetchStats computes the streak, it is the
\* length of the run of practice days that ends today, or yesterday when
\* today has no entry (0 when neither has one).
C2_StreakEndsTodayOrYesterday ==
    [][/\ lastEvent' \in {"fetchProblems", "handleSubmit", "handleDelete"}
            => streak' = StatedStreak({d \in 1..MaxDay : coding_problems'[d] > 0}, today)
       /\ lastEvent' = "fetchStats"
            => currentStreak' = StatedStreak({d \in 1..MaxDay : coding_problems'[d] > 0}, today)
      ]_vars

(***************************************************************************)
(* Properties of the mock-interview session.                               *)
(***************************************************************************)
\* The start, continue and feedback requests that have not been answered in
\* full (the call is awaited, or its reply is still being read).
RequestsInFlight == {c \in calls : c.stage \in {"fetch", "stream"}}

\* C6: at most one start, continue or feedback request is in flight at any
\* time; in particular a sendMessage and an endInterview never overlap and
\* no two sendMessage calls are pending together.
C6_OneRequestInFlight ==
    /\ Cardinality(RequestsInFlight) <= 1
    /\ Cardinality(CallsOf("sendMessage")) <= 1

\* C7: however the stream is divided into read chunks, the message
\* startInterview and sendMessage have accumulated when the stream is done
\* is the in-order concatenation of the delta contents of the stream's data
\* events, and it is the message their update appends to the transcript.
C7_ReplyIsConcatenation ==
    \A c \in calls :
        c.handler \in {"startInterview", "sendMessage"} /\ c.stage = "update"
        => c.aiMessage = Concatenation(c.events)

\* C9: when sendMessage fails, one error toast is shown, the displayed
\* transcript is the one from before the send (updatedMessages without the
\* user's message) and the stored rows are not written.
C9_SendFailureLeavesTranscript ==
    [][\A c \in calls \ calls' :
           lastEvent' = "sendMessage.error"
           => /\ toasts' = <<"error">>
              /\ messages' = SubSeq(c.base, 1, Len(c.base) - 1)
              /\ mock_interviews' = mock_interviews
      ]_vars

\* C10: when endInterview shows the feedback view, the stored row of the
\* interview is completed, holds the displayed feedback, and its
\* overall_rating is that feedback's overallRating; a click on End Interview
\* issues exactly one feedback request, which is answered by one object and
\* not by a stream.
C10_FeedbackShownIsStored ==
    [][/\ \A c \in calls \ calls' :
              lastEvent' \in {"endInterview.ok", "endInterview.updateError"}
              => /\ interviewView' = "feedback"
                 /\ mock_interviews'[c.interview[1]].status = "completed"
                 /\ mock_interviews'[c.interview[1]].feedback = feedback'
                 /\ feedback' # <<>>
                 /\ mock_interviews'[c.interview[1]].overall_rating
                        = feedback'[1].overallRating
       /\ CallsOf("endInterview")' # CallsOf("endInterview")
              => /\ Cardinality(CallsOf("endInterview")') <= 1
                 /\ \A c \in CallsOf("endInterview")' : c.rest = <<>> /\ c.events = <<>>
      ]_vars

\* C11: every failed backend read or write of the mock-interview page (the
\* history fetch, the insert, the start, continue and feedback calls, and
\* the updates of startInterview, sendMessage and endInterview) shows
\* exactly one error notification.
C11_FailureShowsOneError ==
    [][lastEvent' \in {"fetchInterviewHistory.error", "startInterview.error",
                       "sendMessage.error", "endInterview.error",
                       "startInterview.updateError", "sendMessage.updateError",
                       "endInterview.updateError"}
       => toasts' = <<"error">>
      ]_vars

(***************************************************************************)
(* Properties of the edge functions.                                       *)
(***************************************************************************)
\* The caller can go on as after any good answer: the status is OK and the
\* body is JSON.
ClientContinues(r) == r.status = 200 /\ (r.kind = "raw" => JsonParses(r.text))

\* C12: when the content the gateway returned is not JSON, each of
\* analyze-resume, generate-test and the feedback action of mock-interview
\* answers with an object (the placeholder, or an object it could still
\* extract) and not with an error, and the caller can go on.
C12_UnparsableContentGivesPlaceholder ==
    lastEvent \in {"analyze-resume", "generate-test", "mock-interview"}
        /\ ~JsonParses(aiContent)
    => /\ response.kind \in {"placeholder", "parsed"}
       /\ ClientContinues(response)

\* The steps in which startInterview and endInterview finish after their
\* update.
StartInterviewDone == lastEvent' \in {"startInterview.ok", "startInterview.updateError"}
EndInterviewDone == lastEvent' \in {"endInterview.ok", "endInterview.updateError"}

\* C13: the view progresses setup -> interview -> feedback only. The
\* interview view is entered from setup, by startInterview, for an interview
\* whose insert and start call both succeeded; the feedback view is entered
\* from the interview view, by endInterview after its feedback call
\* succeeded; resetInterview gives the setup view with currentInterview,
\* messages and feedback cleared.
C13_SetupInterviewFeedback ==
    [][/\ interviewView' = "interview" /\ interviewView # "interview"
            => /\ interviewView = "setup"
               /\ StartInterviewDone
               /\ currentInterview' # <<>>
               /\ currentInterview'[1] \in started
               /\ currentInterview'[1] \in 1..Len(mock_interviews)
       /\ interviewView' = "feedback" /\ interviewView # "feedback"
            => /\ interviewView = "interview"
               /\ EndInterviewDone
               /\ feedback' # <<>>
       /\ lastEvent' = "resetInterview"
            => /\ interviewView' = "setup"
               /\ currentInterview' = <<>>
               /\ messages' = <<>>
               /\ feedback' = <<>>
      ]_vars

(***************************************************************************)
(* The record pages: learning goals, coding problems, applications,        *)
(* resumes.                                                                *)
(***************************************************************************)

\* The required name of the submitted form is empty or whitespace only: the
\* topic, the problem name, the resume name, or the company or the role.
RequiredNameEmpty ==
    \/ Trim(form.name) = <<>>
    \/ page = "applications" /\ Trim(form.second) = <<>>

\* C14: a submission whose required name, topic, company, role or problem
\* field is empty or whitespace only is rejected with an error toast before
\* any insert, update or upload request is issued, and the stored records
\* are unchanged.
C14_EmptyNameRejected ==
    [][lastEvent' = "handleSubmit" /\ RequiredNameEmpty
            => /\ toasts' = <<"error">>
               /\ pending' = pending
               /\ stored' = stored
               /\ uploads' = uploads
               /\ submitting' = submitting
      ]_vars

C14_Witness ==
    /\ lastEvent = "handleSubmit"
    /\ form.name = <<" ">>
    /\ toasts = <<"error">>
    /\ stored # {}
    /\ pending = {}

(***************************************************************************)
(* The list filters.                                                       *)
(***************************************************************************)
StatusIs(app) == filterStatus = "all" \/ app.status = filterStatus
TypeIs(app) == filterType = "all" \/ app.job_type = filterType
PlatformIs(problem) == filterPlatform = "all" \/ problem.platform = filterPlatform
DifficultyIs(problem) == filterDifficulty = "all" \/ problem.difficulty = filterDifficulty
BothOfApp(app) == StatusIs(app) /\ TypeIs(app)
BothOfProblem(problem) == PlatformIs(problem) /\ DifficultyIs(problem)

\* C15: for every combination of the two selectors, the displayed
\* application list and the displayed coding-problem list are the fetched
\* list filtered by the conjunction of the two predicates; a selector set to
\* 'all' imposes no restriction, and the two selectors act independently
\* (filtering by one and then by the other gives the same list).
C15_FilterIsConjunction ==
    /\ filteredApps = SelectSeq(applications, BothOfApp)
    /\ filteredProblems = SelectSeq(problems, BothOfProblem)
    /\ filterStatus = "all" => filteredApps = SelectSeq(applications, TypeIs)
    /\ filterType = "all" => filteredApps = SelectSeq(applications, StatusIs)
    /\ filterPlatform = "all" => filteredProblems = SelectSeq(problems, DifficultyIs)
    /\ filterDifficulty = "all" => filteredProblems = SelectSeq(problems, PlatformIs)
    /\ filteredApps = SelectSeq(SelectSeq(applications, StatusIs), TypeIs)
    /\ filteredApps = SelectSeq(SelectSeq(applications, TypeIs), StatusIs)
    /\ filteredProblems = SelectSeq(SelectSeq(problems, PlatformIs), DifficultyIs)
    /\ filteredProblems = SelectSeq(SelectSeq(problems, DifficultyIs), PlatformIs)

\* Both selectors of the Applications page are set: a row that matches one
\* selector only is hidden and a row that matches both is shown.
C15_Witness ==
    /\ filterStatus # "all" /\ filterType # "all"
    /\ Len(applications) = 2
    /\ Len(filteredApps) = 1
    /\ \E i \in 1..Len(applications) :
            applications[i].status = filterStatus /\ applications[i].job_type # filterType

(***************************************************************************)
(* Deleting a record.                                                      *)
(***************************************************************************)
StoredIds == {row.id : row \in stored}
NotDeleted(row) == row.id \in StoredIds
RefreshAnswered == lastEvent' \in {"fetch.ok", "fetch.error"}

\* C16: after a confirmed delete of record X has completed, its refresh
\* included, the displayed list is the previous list without X, every other
\* record present and unchanged; when the delete request fails the
\* displayed list is unchanged.
C16_DeleteRemovesExactlyThatRecord ==
    [][/\ lastEvent = "handleDelete.ok" /\ RefreshAnswered
            => records' = SelectSeq(records, NotDeleted)
       /\ lastEvent' = "handleDelete.error" => records' = records
      ]_vars

(***************************************************************************)
(* Row-level policies.                                                     *)
(***************************************************************************)
\* C17: under the row-level policies of every user-owned table, a request
\* authenticated as user A never selects, inserts, updates or deletes a row
\* whose user_id is another user, whatever filter the client sends: the
\* rows returned, the rows removed or replaced and the rows added or
\* written all have user_id equal to the requester.
C17_OwnRowsOnly ==
    [][\A t \in Tables :
            /\ \A row \in result' : row.user_id = request'.uid
            /\ \A row \in db[t] \ db'[t] : row.user_id = request'.uid
            /\ \A row \in db'[t] \ db[t] : row.user_id = request'.uid
      ]_vars

\* An update or delete whose filter matched only rows of another user, in a
\* table that holds a row of each user: the rows are still there.
C17_Witness ==
    /\ lastEvent \in {"update.hidden", "delete.hidden"}
    /\ \E t \in Tables :
            /\ \E row \in db[t] : row.user_id # request.uid
            /\ \E row \in db[t] : row.user_id = request.uid

(***************************************************************************)
(* The timer of the mock test.                                             *)
(***************************************************************************)
TimerFired == lastEvent' \in {"tick", "tick.handleSubmitTest"}

\* C18: the per-second timer runs only while the view is 'test': a tick
\* fires only in the test view, from the one active interval; while the
\* view stays another one timeRemaining does not change (resetTest sets it
\* to 0); at most one interval is active at a time; timeRemaining is never
\* negative.
C18_TimerOnlyInTestView ==
    [][/\ TimerFired => view = "test" /\ intervals = 1
       /\ view # "test" /\ view' # "test"
            => timeRemaining' = timeRemaining
               \/ (lastEvent' = "resetTest" /\ timeRemaining' = 0)
       /\ view' # "test" => intervals' = 0
       /\ intervals' <= 1
       /\ timeRemaining' >= 0
      ]_vars

\* The view left 'test' with time remaining, and the interval is gone.
C18_Witness ==
    /\ view = "result"
    /\ timeRemaining > 0
    /\ intervals = 0
    /\ lastEvent = "handleSubmitTest.ok"

(***************************************************************************)
(* A reply stream that ends early.                                         *)
(***************************************************************************)
\* The call c ends in this step, its reply stream having ended after some
\* text was received and before the whole reply was delivered.
EndsTruncated(c) ==
    /\ c \in calls /\ c \notin calls'
    /\ c.handler \in {"startInterview", "sendMessage"}
    /\ c.rest # <<>> /\ c.aiMessage # <<>>
    /\ c.aiMessage # Concatenation(c.events)
    /\ \/ c.stage = "update"
       \/ c.stage = "stream" /\ lastEvent' \in {"startInterview.error", "sendMessage.error"}

Transcript(c) ==
    IF c.handler = "startInterview" THEN <<Message("assistant", c.aiMessage)>>
    ELSE Reply(c, c.aiMessage)

\* C19: when the stream of a start or continue call ends before the full
\* reply was delivered, the text received so far is kept as the assistant's
\* message in the transcript, as displayed and as persisted, and no further
\* request is issued to resume or retry the reply.
C19_TruncatedReplyKept ==
    [][\A c \in calls :
            EndsTruncated(c)
                => /\ messages' = Transcript(c)
                   /\ mock_interviews'[c.interview[1]].messages = Transcript(c)
                   /\ calls' \subseteq calls
      ]_vars

(***************************************************************************)
(* The roadmap.                                                            *)
(***************************************************************************)
RoadmapsOf(u) == {x \in roadmapTable : x.user_id = u}

\* C20: in every reachable state the roadmap table holds at most one row
\* per user, after any sequence and interleaving of saveRoadmap and
\* fetchRoadmap calls.
C20_OneRoadmapPerUser ==
    \A u \in Users : Cardinality(RoadmapsOf(u)) <= 1

\* A second insert for a user who has a row was attempted and rejected.
C20_Witness ==
    /\ lastEvent = "saveRoadmap.duplicate"
    /\ Cardinality(RoadmapsOf("A")) = 1
    /\ Cardinality(RoadmapsOf("B")) = 1

(***************************************************************************)
(* The file of a resume.                                                   *)
(***************************************************************************)
StoredUrls == {row.file_url : row \in stored}

\* C21: editing a resume without choosing a new file leaves the record's
\* file_url equal to its previous value, as does an edit whose upload
\* fails; only a successful upload replaces file_url, with the URL of the
\* newly uploaded object (a URL no record held before).
C21_FileUrlKept ==
    [][page = "resumes" =>
            \A old \in stored : \A new \in stored' :
                old.id = new.id /\ old.file_url # new.file_url
                    => /\ new.file_url # <<>>
                       /\ new.file_url \notin StoredUrls
                       /\ new.file_url[1] <= uploads
      ]_vars

(***************************************************************************)
(* Selecting an answer.                                                    *)
(***************************************************************************)
\* What slot j of an answer array reads as: "" for an empty or missing slot.
EntryOf(answers, j) == IF j <= Len(answers) THEN answers[j] ELSE ""

\* C22: selecting an answer while question i is current sets entry i of
\* selectedAnswers to the chosen option and leaves every other entry, the
\* current question index, the timer and the stored test unchanged;
\* selecting again on the same question overwrites entry i only.
C22_SelectWritesOneEntry ==
    [][lastEvent' = "handleAnswerSelect" =>
            /\ selectedAnswers'[currentQuestionIndex + 1] \in OptionKeys
            /\ \A j \in 1..(MaxQuestions + 1) :
                   j # currentQuestionIndex + 1
                       => EntryOf(selectedAnswers', j) = EntryOf(selectedAnswers, j)
            /\ currentQuestionIndex' = currentQuestionIndex
            /\ timeRemaining' = timeRemaining
            /\ currentTest' = currentTest
            /\ mock_tests' = mock_tests
      ]_vars

\* The second question was just answered while the first keeps its answer.
C22_Witness ==
    /\ lastEvent = "handleAnswerSelect"
    /\ currentQuestionIndex = 1
    /\ Len(selectedAnswers) = 2
    /\ selectedAnswers[1] \in OptionKeys
    /\ selectedAnswers[2] \in OptionKeys
    /\ selectedAnswers[1] # selectedAnswers[2]

(***************************************************************************)
(* What a submission writes.                                               *)
(***************************************************************************)
\* C23: the time_taken written by handleSubmitTest is max_time minus the
\* time remaining at the moment of submission and lies in 0..max_time; a
\* submission triggered by the timer records time_taken = max_time; the
\* answers written are exactly the selections made up to that moment.
C23_SubmissionRecordsTimeAndAnswers ==
    [][\A r \in requests' \ requests :
            r.kind = "update" =>
                /\ r.payload.time_taken[1] \in 0..r.test[1].max_time
                /\ r.payload.answers = selectedAnswers
                /\ IF r.auto
                   THEN r.payload.time_taken[1] = r.test[1].max_time
                   ELSE r.payload.time_taken[1] = r.test[1].max_time - timeRemaining
      ]_vars

(***************************************************************************)
(* The current question and the answer slots.                              *)
(***************************************************************************)
\* C24: while a test is being taken, currentQuestionIndex is a valid index
\* into the questions of the current test and selectedAnswers has exactly
\* one slot per generated question, after any sequence of Previous, Next
\* and navigator clicks, also when the generator returned a number of
\* questions different from the number requested.
C24_IndexAndSlotsMatchQuestions ==
    (view = "test" /\ currentTest # <<>>)
        => /\ currentQuestionIndex \in 0..(Len(currentTest[1].questions) - 1)
           /\ Len(selectedAnswers) = Len(currentTest[1].questions)

(***************************************************************************)
(* The transcript shown and the transcript stored.                         *)
(***************************************************************************)
\* C25: whenever no call of the interview page is in flight and an
\* interview is displayed, the displayed transcript equals the transcript
\* stored in the row of the current interview, after any sequence of
\* startInterview, sendMessage (succeeding or failing) and
\* viewHistoryInterview.
C25_DisplayedIsPersisted ==
    (/\ calls = {}
     /\ currentInterview # <<>>
     /\ interviewView \in {"interview", "feedback"})
        => messages = mock_interviews[currentInterview[1]].messages

(***************************************************************************)
(* The order of the turns.                                                 *)
(***************************************************************************)
\* The turns of a transcript begin with the assistant and alternate.
Alternates(list) ==
    \A i \in 1..Len(list) : list[i].role = IF i % 2 = 1 THEN "assistant" ELSE "user"

\* C26: the transcript of an interview, as displayed and as stored, begins
\* with an assistant turn and strictly alternates assistant and user turns,
\* after any number of successful and failed sendMessage calls.
C26_TurnsAlternate ==
    /\ currentInterview # <<>> => Alternates(messages)
    /\ \A i \in 1..Len(mock_interviews) : Alternates(mock_interviews[i].messages)

(***************************************************************************)
(* Saving the roadmap again.                                               *)
(***************************************************************************)
\* C27: a saveRoadmap issued after an earlier saveRoadmap of the same user
\* succeeded (the user has a row) is performed as an update of that row,
\* also when the refetch started by the earlier save failed.
C27_SecondSaveIsUpdate ==
    [][\A r \in roadmapRequests' \ roadmapRequests :
            RoadmapsOf(UserOf(r.client)) # {}
                => /\ r.kind = "update"
                   /\ r.id \in {x.id : x \in RoadmapsOf(UserOf(r.client))}
      ]_vars

(***************************************************************************)
(* The busy flags.                                                         *)
(***************************************************************************)
\* C28: every operation that sets a busy flag (loading, submitting, saving,
\* sendingMessage, parsing, analyzing, uploadingFile) clears it on every
\* path, success, validation rejection and request failure alike: whenever
\* a page has no request in flight, its busy flags are false.
C28_IdleMeansNotBusy ==
    /\ requests = {} => ~loading
    /\ calls = {} => (~sendingMessage /\ ~interviewLoading)
    /\ pending = {} => (~submitting /\ ~uploadingFile)
    /\ \A client \in Clients :
          (\A r \in roadmapRequests : r.client # client) => ~saving[client]
    /\ analyzerCalls = {} => (~parsing /\ ~analyzing)
    /\ signIns = 0 => ~formLoading

\* The analysis of a parsed PDF was refused (data.error): nothing is in
\* flight and both flags of the analyzer are down.
C28_Witness ==
    /\ lastEvent = "analyze.refused"
    /\ analyzerCalls = {}
    /\ resumeText # <<>>
    /\ inputMethod = "upload"
    /\ ~parsing /\ ~analyzing

(***************************************************************************)
(* The routes.                                                             *)
(***************************************************************************)
\* C30: no protected page is rendered while the user is null or while
\* authentication is loading; once loading is over, a visitor without a
\* user is at /auth (or at a path no route matches), and a user is never
\* left at / or /auth: a visit there ends at /dashboard.
C30_ProtectedPagesNeedUser ==
    /\ rendered \in ProtectedPaths => (authUser # <<>> /\ ~authLoading)
    /\ (~authLoading /\ authUser = <<>>)
          => (location \in {"/auth", "/other"} /\ rendered \in {"auth", "notfound"})
    /\ (~authLoading /\ authUser # <<>>)
          => /\ location \notin {"/", "/auth"}
             /\ lastEvent \in {"visit /", "visit /auth"}
                    => (location = "/dashboard" /\ rendered = "/dashboard")

\* A visit to /resumes without a user has ended at the sign-in page.
C30_Witness ==
    /\ lastEvent = "visit /resumes"
    /\ authUser = <<>>
    /\ ~authLoading
    /\ location = "/auth"
    /\ rendered = "auth"

(***************************************************************************)
(* The monthly plan.                                                       *)
(***************************************************************************)
\* The goals listed for a month; none when the month has no entry.
GoalsOf(list, month) ==
    IF \E i \in 1..Len(list) : list[i].month = month
    THEN list[CHOOSE i \in 1..Len(list) : list[i].month = month].goals
    ELSE <<>>

\* Each month at most once, and no entry without goals.
OneEntryPerMonth(list) ==
    /\ \A i, j \in 1..Len(list) : list[i].month = list[j].month => i = j
    /\ \A i \in 1..Len(list) : list[i].goals # <<>>

\* C29: after any sequence of addMonthlyGoal, updateGoal and removeGoal each
\* month appears at most once in monthlyGoals and no entry has an empty goal
\* list; adding to a month appends a goal to its list, removing the last
\* goal of a month removes its entry, and an operation on one month leaves
\* the goal lists of all other months unchanged.
C29_MonthlyGoalsWellFormed ==
    [][/\ OneEntryPerMonth(monthlyGoals')
       /\ \A month \in Months :
            /\ lastEvent' = "addMonthlyGoal " \o month
                  => GoalsOf(monthlyGoals', month) = Append(GoalsOf(monthlyGoals, month), "")
            /\ (lastEvent' = "removeGoal " \o month /\ Len(GoalsOf(monthlyGoals, month)) = 1)
                  => \A i \in 1..Len(monthlyGoals') : monthlyGoals'[i].month # month
            /\ lastEvent' \in {"addMonthlyGoal " \o month, "updateGoal " \o month,
                                "removeGoal " \o month}
                  => \A other \in Months \ {month} :
                        GoalsOf(monthlyGoals', other) = GoalsOf(monthlyGoals, other)
      ]_vars

\* The last goal of January was removed and February keeps its two goals.
C29_Witness ==
    /\ lastEvent = "removeGoal January"
    /\ monthlyGoals = <<[month |-> "February", goals |-> <<"g", "">>]>>

====
